---- MODULE Spec2Model ----
(***************************************************************************)
(* The layered battery alert monitor (src/battery-alert.py) reading the    *)
(* status file that the acquisition cycle (src/battery-oneshot.py)         *)
(* publishes.                                                              *)
(*                                                                         *)
(* Units: voltages are millivolts (the file holds round(voltage, 3)),      *)
(* percentages are tenths of a percent (the file holds round(p, 1)), times *)
(* are seconds.  self.last_warning_time is represented by its age           *)
(* time.time() - self.last_warning_time, saturated at AgeCap, which is     *)
(* above the interval the code compares it with.  battery.timestamp is     *)
(* represented by whether it is older than MAX_DATA_AGE ("stale") or not   *)
(* ("fresh"): a fresh record may turn stale during any sleep.              *)
(*                                                                         *)
(* The acquisition cycle itself (one run of src/battery-oneshot.py: open   *)
(* the bus, load the recovery state, read, validate, reset the chip if     *)
(* needed, publish) is the second process, specified by AcqSpec.  There    *)
(* the register values keep their resolution: voltages are multiples of    *)
(* 1/VoltUnit V, raw percentages of 1/RawUnit %, user percentages of       *)
(* 1/UserUnit %, and self.last_reset is represented by its age.            *)
(*                                                                         *)
(* ValidatorSpec runs the same cycle on the register values of the         *)
(* validator's scenarios, DecodeSpec runs one cycle on every word the      *)
(* SOC register can hold, ChecksSpec one cycle on readings at and around   *)
(* every threshold of is_bad_reading.  RetrySpec runs the cycle from its   *)
(* timer on a gauge that stays wrong, RaceSpec runs a manual reset next to *)
(* a cycle, and AbsentSpec gives the monitor records with absent fields.   *)
(***************************************************************************)
EXTENDS Integers, Sequences, FiniteSets, TLC

VOLTAGE_CRITICAL == 3200
VOLTAGE_WARNING == 3300
PERCENTAGE_CRITICAL == 10
PERCENTAGE_WARNING == 50
SHUTDOWN_DELAY == 15
POLL_INTERVAL == 10
WARNING_INTERVAL == 300
FINAL_PAUSE == 2
MAX_DATA_AGE == 300

\* Ages saturate here.
AgeCap == 301
\* The grid of readings lies within GridSpread of each threshold.
GridSpread == 1

VARIABLES
    statusFile,          \* content of /tmp/battery_status.json
    pc,                  \* position of the monitor process
    running,             \* self.running
    shutdown_initiated,  \* self.shutdown_initiated
    warning_shown,       \* self.warning_shown
    sinceWarning,        \* time.time() - self.last_warning_time
    sinceNotified,       \* time since the last warning notification was emitted
    polled,              \* battery in check_shutdown_conditions, kept until run
                         \* has branched on the verdict
    condition,           \* condition in run
    battery,             \* battery in run (the second read): the voltage and
                         \* percentage passed on, until the messages are built
    remaining,           \* remaining in show_critical_shutdown_countdown
    ticks,               \* one-second sleeps of the countdown that returned
    shutdownCalls,       \* calls of subprocess.run(['sudo','shutdown','-h','now'])
    fellThrough,         \* the countdown's except Exception handler was entered
    reminders,           \* values of remaining whose reminder was emitted
    notifyOutcome,       \* how the notification call of the last step ended
    stateFile,           \* content of /tmp/battery_reset_state.json
    apc,                 \* position of the acquisition process ("idle": none runs)
    mode,                \* its command line: "cycle" (no argument) or "reset"
    last_reset,          \* time.time() - self.last_reset
    bad_reading_count,   \* self.bad_reading_count
    last_voltage,        \* self.last_voltage
    current_time,        \* time.time() - current_time in reset_max_chip
    reading,             \* voltage, raw_percent, user_percent of the cycle
    reason,              \* reason returned by is_bad_reading
    cycle_status,        \* status in read_battery_with_validation and main
    unhandled,           \* the exception that ended the process unhandled, or ""
    events,              \* what the process has done to the chip and the files
    sinceChipReset,      \* time since the chip last received the reset command
    window,              \* the charging window at the charge-detect input
    gauge,               \* which words the fuel gauge returns: see GaugeWords
    streak,              \* the run of consecutive bad readings that is followed:
                         \* <<>> when none is, else <<time since its first
                         \* reading, chip resets issued since>>
    manual               \* a second process, battery-oneshot.py reset, run by the
                         \* user while the first runs: its position and the
                         \* attributes of its BatteryMonitor

monitorVars == <<pc, running, shutdown_initiated, warning_shown, sinceWarning,
                 sinceNotified, polled, condition, battery, remaining, ticks,
                 shutdownCalls, fellThrough, reminders, notifyOutcome>>

acqVars == <<stateFile, apc, mode, last_reset, bad_reading_count, last_voltage,
             current_time, reading, reason, cycle_status, unhandled, events,
             sinceChipReset,
             window, gauge, streak, manual>>

vars == <<statusFile, monitorVars, acqVars>>

Min(a, b) == IF a < b THEN a ELSE b

\* dict.get(key, default): a JSON field is <<>> when absent, <<v>> when present.
Get(field, default) == IF field = <<>> THEN default ELSE field[1]

\* ---------------------------------------------------------------- status file

Missing == [kind |-> "missing", voltage |-> <<>>, percent_user |-> <<>>,
            percent_raw |-> <<>>, error |-> <<>>, timestamp |-> <<>>]

\* An empty or partly written file: what open(..., 'w') leaves until json.dump
\* has written the whole record.  It is not valid JSON.
Truncated == [kind |-> "garbage", voltage |-> <<>>, percent_user |-> <<>>,
              percent_raw |-> <<>>, error |-> <<>>, timestamp |-> <<>>]

\* A record of a good reading as the monitor finds it.  percent_raw is the raw
\* percent of the user percent (user = (raw - 15) * 20/17).
StatusRecord(voltage, user_percent) ==
    [kind |-> "json", voltage |-> <<voltage>>, percent_user |-> <<user_percent>>,
     percent_raw |-> <<(user_percent * 17) \div 20 + 150>>,
     error |-> <<>>, timestamp |-> <<"fresh">>]

create_error_status(error_msg) ==
    [kind |-> "json", voltage |-> <<0>>, percent_user |-> <<0>>,
     percent_raw |-> <<0>>,
     error |-> <<error_msg>>, timestamp |-> <<"fresh">>]

\* Readings the acquisition cycle publishes in the monitor's specification.
SpecVoltages == {VOLTAGE_CRITICAL, VOLTAGE_WARNING, 4100}
SpecPercents == {PERCENTAGE_CRITICAL, 20, 500}

Published ==
    {StatusRecord(v, p) : v \in SpecVoltages, p \in SpecPercents}
        \cup {create_error_status("I2C error")}

\* The record once its timestamp is more than MAX_DATA_AGE in the past.
Stale(f) == IF f.timestamp = <<"fresh">> THEN [f EXCEPT !.timestamp = <<"stale">>] ELSE f

\* ------------------------------------------------------ the recovery state

RESET_COOLDOWN == 300
BAD_READING_THRESHOLD == 1

\* bad_reading_count is followed up to here.
MaxBadCount == 3

\* Voltages of the acquisition cycle are multiples of 1/VoltUnit volt: the
\* register counts 0.000078125 V = 1/12800 V.  The float product differs from
\* the multiple by its rounding error, which decides a comparison only when the
\* multiple equals the threshold (see is_bad_reading), a rounding only at a tie
\* and the jump test only at a difference of exactly 0.5 V.
VoltUnit == 12800
\* Raw percentages are multiples of 1/RawUnit %: the register counts 1/256 %.
RawUnit == 256
\* User percentages are multiples of 1/UserUnit %.  (raw_percent - 15) * 20/17
\* is a multiple of 1/4352 %; the code's factor 1.176470588 is 2.4e-10 below
\* 20/17, so its product lies below that multiple by less than 5e-8 %.  It is
\* held as the multiple less one unit of 1/8704 %: every comparison with a
\* threshold that is a multiple of 0.1 % and the rounding to 0.1 % come out as
\* they do for the float.
UserUnit == 8704

Max(a, b) == IF a > b THEN a ELSE b

\* round(x, ndigits) of a float holding n/d exactly: to the nearest, a tie to
\* the even neighbour.
Round(n, d) ==
    LET q == n \div d
        r == n % d
    IN  IF 2 * r > d \/ (2 * r = d /\ q % 2 = 1) THEN q + 1 ELSE q

\* The state file.  A field is <<>> when the key is absent.  last_reset is held
\* as its age time.time() - last_reset, saturated at AgeCap: the value 0 (the
\* epoch) has that age.  json.dump and json.load give back the same numbers.
StateFile(kind, lr, bc, lv) ==
    [kind |-> kind, last_reset |-> lr, bad_reading_count |-> bc, last_voltage |-> lv]

StateAbsent == StateFile("absent", <<>>, <<>>, <<>>)

\* The state file d seconds later.
AgedState(f, d) ==
    IF f.last_reset = <<>> THEN f
    ELSE [f EXCEPT !.last_reset = <<Min(f.last_reset[1] + d, AgeCap)>>]

\* Faulty variant: the persisted last_reset is not read back.
load_state_ForgetsLastReset(f) ==
    CASE f.kind \in {"absent", "garbage"} ->
            [exception |-> "", last_reset |-> AgeCap, bad_reading_count |-> 0,
             last_voltage |-> 0]
      [] f.kind = "unreadable" ->
            [exception |-> "PermissionError", last_reset |-> AgeCap,
             bad_reading_count |-> 0, last_voltage |-> 0]
      [] f.kind = "nonobject" ->
            [exception |-> "AttributeError", last_reset |-> AgeCap,
             bad_reading_count |-> 0, last_voltage |-> 0]
      [] OTHER ->
            [exception |-> "", last_reset |-> AgeCap,
             bad_reading_count |-> Get(f.bad_reading_count, 0),
             last_voltage |-> Get(f.last_voltage, 0)]

\* load_state: the three attributes, or the exception that leaves load_state.
\* open raises FileNotFoundError for an absent file and PermissionError for an
\* unreadable one; json.load raises JSONDecodeError; state.get raises
\* AttributeError when the JSON value is not an object.
load_state(f) ==
    CASE f.kind \in {"absent", "garbage"} ->
            [exception |-> "", last_reset |-> AgeCap, bad_reading_count |-> 0,
             last_voltage |-> 0]
      [] f.kind = "unreadable" ->
            [exception |-> "PermissionError", last_reset |-> AgeCap,
             bad_reading_count |-> 0, last_voltage |-> 0]
      [] f.kind = "nonobject" ->
            [exception |-> "AttributeError", last_reset |-> AgeCap,
             bad_reading_count |-> 0, last_voltage |-> 0]
      [] OTHER ->
            [exception |-> "", last_reset |-> Get(f.last_reset, AgeCap),
             bad_reading_count |-> Get(f.bad_reading_count, 0),
             last_voltage |-> Get(f.last_voltage, 0)]

\* (w & 0xFF) << 8 | (w >> 8) of a 16-bit word.
Swap(w) == (w % 256) * 256 + (w \div 256)

\* Faulty variant: the user percent is not clamped.
read_raw_data_Unclamped(vcell_raw, soc_raw) ==
    LET soc_swapped == Swap(soc_raw)
        raw_percent == (soc_swapped \div 256) * RawUnit + (soc_swapped % 256)
    IN  [voltage |-> Swap(vcell_raw),
         raw_percent |-> raw_percent,
         user_percent |-> (raw_percent - 15 * RawUnit) * (2 * 20) - 1]

\* read_raw_data on the words the bus returned for registers 0x02 and 0x04.
read_raw_data(vcell_raw, soc_raw) ==
    LET soc_swapped == Swap(soc_raw)
        raw_percent == (soc_swapped \div 256) * RawUnit + (soc_swapped % 256)
    IN  [voltage |-> Swap(vcell_raw),
         raw_percent |-> raw_percent,
         user_percent |->
             Min(100 * UserUnit,
                 Max(0, (raw_percent - 15 * RawUnit) * (2 * 20) - 1))]

\* No reading held.
NoReading == [voltage |-> 0, raw_percent |-> 0, user_percent |-> 0]

Abs(x) == IF x < 0 THEN 0 - x ELSE x

\* Faulty variant: the bounds of the percentages are checked first.
is_bad_reading_BoundsFirst(voltage, raw_percent, user_percent, lv) ==
    IF raw_percent < 0 \/ raw_percent > 110 * RawUnit
    THEN <<TRUE, "Raw percentage out of bounds">>
    ELSE IF user_percent < (0 - 5) * UserUnit \/ user_percent > 105 * UserUnit
    THEN <<TRUE, "User percentage out of bounds">>
    ELSE IF voltage * 10 > 43 * VoltUnit \/ voltage * 10 < 25 * VoltUnit
    THEN <<TRUE, "Impossible voltage">>
    ELSE IF voltage > 4 * VoltUnit /\ user_percent < 30 * UserUnit
    THEN <<TRUE, "High voltage, low percentage">>
    ELSE IF voltage * 10 < 35 * VoltUnit /\ user_percent > 70 * UserUnit
    THEN <<TRUE, "Low voltage, high percentage">>
    ELSE IF voltage * 10 >= 38 * VoltUnit /\ user_percent < 10 * UserUnit
    THEN <<TRUE, "Voltage too high for percentage">>
    ELSE IF voltage * 10 < 33 * VoltUnit /\ user_percent > 50 * UserUnit
    THEN <<TRUE, "Voltage too low for percentage">>
    ELSE IF lv > 0 /\ Abs(voltage - lv) * 10 > 5 * VoltUnit
    THEN <<TRUE, "Sudden voltage change">>
    ELSE <<FALSE, "">>

\* Faulty variant: the reading is not compared with the stored voltage.
is_bad_reading_NoJumpCheck(voltage, raw_percent, user_percent, lv) ==
    IF voltage * 10 > 43 * VoltUnit \/ voltage * 10 < 25 * VoltUnit
    THEN <<TRUE, "Impossible voltage">>
    ELSE IF voltage > 4 * VoltUnit /\ user_percent < 30 * UserUnit
    THEN <<TRUE, "High voltage, low percentage">>
    ELSE IF voltage * 10 < 35 * VoltUnit /\ user_percent > 70 * UserUnit
    THEN <<TRUE, "Low voltage, high percentage">>
    ELSE IF voltage * 10 >= 38 * VoltUnit /\ user_percent < 10 * UserUnit
    THEN <<TRUE, "Voltage too high for percentage">>
    ELSE IF voltage * 10 < 33 * VoltUnit /\ user_percent > 50 * UserUnit
    THEN <<TRUE, "Voltage too low for percentage">>
    ELSE IF raw_percent < 0 \/ raw_percent > 110 * RawUnit
    THEN <<TRUE, "Raw percentage out of bounds">>
    ELSE IF user_percent < (0 - 5) * UserUnit \/ user_percent > 105 * UserUnit
    THEN <<TRUE, "User percentage out of bounds">>
    ELSE <<FALSE, "">>

\* is_bad_reading: <<is_bad, reason>>.  The reasons are without the figures
\* the code formats into some of them.  At a voltage equal to a threshold the
\* float product equals the float threshold for 2.5, 3.5, 4.0 and 4.3 V and is
\* above it for 3.3 and 3.8 V (48640 * 0.000078125 is 3.8000000000000003).
is_bad_reading(voltage, raw_percent, user_percent, lv) ==
    IF voltage * 10 > 43 * VoltUnit \/ voltage * 10 < 25 * VoltUnit
    THEN <<TRUE, "Impossible voltage">>
    ELSE IF voltage > 4 * VoltUnit /\ user_percent < 30 * UserUnit
    THEN <<TRUE, "High voltage, low percentage">>
    ELSE IF voltage * 10 < 35 * VoltUnit /\ user_percent > 70 * UserUnit
    THEN <<TRUE, "Low voltage, high percentage">>
    ELSE IF voltage * 10 >= 38 * VoltUnit /\ user_percent < 10 * UserUnit
    THEN <<TRUE, "Voltage too high for percentage">>
    ELSE IF voltage * 10 < 33 * VoltUnit /\ user_percent > 50 * UserUnit
    THEN <<TRUE, "Voltage too low for percentage">>
    ELSE IF lv > 0 /\ Abs(voltage - lv) * 10 > 5 * VoltUnit
    THEN <<TRUE, "Sudden voltage change">>
    ELSE IF raw_percent < 0 \/ raw_percent > 110 * RawUnit
    THEN <<TRUE, "Raw percentage out of bounds">>
    ELSE IF user_percent < (0 - 5) * UserUnit \/ user_percent > 105 * UserUnit
    THEN <<TRUE, "User percentage out of bounds">>
    ELSE <<FALSE, "">>

\* create_status: the record of a reading, in the units of the file
\* (round(voltage, 3) in mV, round(percent, 1) in tenths of a percent), with
\* the condition flags; validation and reset_info are added by the caller.
\* A voltage count at a tie of the rounding (32 more than a multiple of 64) is
\* rounded by the error of the float product: SpecRegisters has none.
create_status(voltage, raw_percent, user_percent) ==
    [kind |-> "json",
     voltage |-> <<Round(voltage * 1000, VoltUnit)>>,
     percent_user |-> <<Round(user_percent * 10, UserUnit)>>,
     percent_raw |-> <<Round(raw_percent * 10, RawUnit)>>,
     timestamp |-> <<"fresh">>,
     error |-> <<>>,
     voltage_critical |-> voltage * 10 <= 32 * VoltUnit /\ voltage > 0,
     voltage_warning |-> /\ ~(voltage * 10 <= 32 * VoltUnit /\ voltage > 0)
                         /\ voltage * 10 <= 35 * VoltUnit /\ voltage > 0,
     percentage_critical |-> user_percent <= 2 * UserUnit,
     percentage_warning |-> /\ ~(user_percent <= 2 * UserUnit)
                            /\ user_percent <= 5 * UserUnit,
     validation |-> <<>>,
     reset_info |-> <<>>]

\* No status held.
NoStatus == [kind |-> "none"]

\* Words on the bus for registers 0x02 and 0x04: 3.7 V at raw 66 % (user 60 %),
\* 3.15 V at raw 49 % (user 40 %), and 5.12 V at raw 66 %.
SpecRegisters == {<<185, 66>>, <<32925, 49>>, <<65535, 66>>}

\* Words on the bus for the readings of the validator's scenarios:
\* 3.15 V at raw 57.5 % (user 49.99999999 %, published as 50.0 %);
\* 3.25 V, 3.19 V and 2.60 V at raw 49 % (user 40 %);
\* 3.6 V at raw 15 % (user 0 %) and at raw 100 % (user 100 %);
\* 3.200078 V at raw 23.535 % (user 10.04 %).
ValidatorRegisters ==
    {<<32925, 32825>>, <<32930, 49>>, <<32927, 49>>, <<130, 49>>,
     <<180, 15>>, <<180, 100>>, <<416, 35095>>}

\* Words of a gauge that stays wrong: 5.12 V and 2.0 V at raw 66 %, both out
\* of the voltage range of is_bad_reading.
StuckRegisters == {<<65535, 66>>, <<100, 66>>}

\* Readings at and around the thresholds of is_bad_reading: voltages in tenths
\* of a volt, raw percentages in halves of a percent (19, 23.5, 32, 40.5, 49,
\* 57.5, 66, 74.5, 83 and 120 %: user 4.7, 9.99999999, 20, 29.99999999, 40,
\* 49.99999999, 60, 69.99999999, 80 and 100 %).
CheckVolts == {24, 25, 32, 33, 34, 35, 37, 38, 39, 40, 41, 43, 44}
CheckRaws == {38, 47, 64, 81, 98, 115, 132, 149, 166, 240}
CheckRegisters ==
    {<<Swap(v * (VoltUnit \div 10)), Swap(r * (RawUnit \div 2))>> :
        v \in CheckVolts, r \in CheckRaws}

\* The last_voltage such a reading is compared with: none, 3.1 V, 3.7 V.
CheckLastVoltages == {0, 31 * (VoltUnit \div 10), 37 * (VoltUnit \div 10)}

\* The 16-bit words read_word_data can return.
Words == 0 .. (256 * 256 - 1)

\* The pairs of words (registers 0x02 and 0x04) the fuel gauge returns in a run.
GaugeWords(g) ==
    CASE g = "typical" -> SpecRegisters
      [] g = "scenarios" -> ValidatorRegisters
      [] g = "any_soc" -> {<<185, soc_raw>> : soc_raw \in Words}
      [] g = "stuck" -> StuckRegisters
      [] g = "checks" -> CheckRegisters

\* The state files a process may find: absent, unreadable, not JSON, JSON that
\* is not an object, an object without keys, an object as save_state writes it.
SpecStateFiles ==
    {StateAbsent,
     StateFile("unreadable", <<>>, <<>>, <<>>),
     StateFile("garbage", <<>>, <<>>, <<>>),
     StateFile("nonobject", <<>>, <<>>, <<>>),
     StateFile("object", <<>>, <<>>, <<>>),
     StateFile("object", <<AgeCap>>, <<0>>, <<0>>)}

\* No second process runs.
ManualIdle == [pc |-> "idle", last_reset |-> AgeCap, last_voltage |-> 0, current_time |-> 0]

\* Time passing for the second process: the ages of its last_reset and of the
\* current_time reset_max_chip has taken.
ManualAged(m, d) ==
    IF m.pc = "idle" THEN m
    ELSE [m EXCEPT !.last_reset = Min(@ + d, AgeCap),
                   !.current_time = Min(@ + d, AgeCap)]

\* No acquisition process runs.
AcquisitionIdle ==
    /\ apc = "idle"
    /\ mode = ""
    /\ last_reset = AgeCap
    /\ bad_reading_count = 0
    /\ last_voltage = 0
    /\ current_time = 0
    /\ reading = NoReading
    /\ reason = ""
    /\ cycle_status = NoStatus
    /\ unhandled = ""
    /\ events = <<>>

\* ---------------------------------------------------------------- the monitor

None == [ok |-> FALSE, voltage |-> 0, percent_user |-> 0, percent_raw |-> 0,
         timestamp |-> "stale", error |-> <<>>]

\* Faulty variant: the two percentages are taken from each other's key.
get_battery_data_KeysSwapped(f) ==
    IF f.kind # "json"
    THEN None
    ELSE [ok |-> TRUE,
          voltage |-> Get(f.voltage, 0),
          percent_user |-> Get(f.percent_raw, 0),
          percent_raw |-> Get(f.percent_user, 0),
          timestamp |-> Get(f.timestamp, "stale"),
          error |-> f.error]

get_battery_data(f) ==
    IF f.kind # "json"
    THEN None
    ELSE [ok |-> TRUE,
          voltage |-> Get(f.voltage, 0),
          percent_user |-> Get(f.percent_user, 0),
          percent_raw |-> Get(f.percent_raw, 0),
          timestamp |-> Get(f.timestamp, "stale"),   \* the default 0 is the epoch
          error |-> f.error]

\* Python truth of battery.get('error'): None and "" are false.
Truthy(e) == e # <<>> /\ e[1] # ""

\* Faulty variant: the error check is missing.
check_shutdown_conditions_NoErrorCheck(b) ==
    IF ~b.ok THEN "OK"
    ELSE IF b.voltage <= VOLTAGE_CRITICAL /\ b.voltage > 0 THEN "CRITICAL_VOLTAGE"
    ELSE IF b.percent_user <= PERCENTAGE_CRITICAL THEN "CRITICAL_PERCENTAGE"
    ELSE IF b.voltage <= VOLTAGE_WARNING /\ b.voltage > 0 THEN "WARNING_VOLTAGE"
    ELSE IF b.percent_user <= PERCENTAGE_WARNING THEN "WARNING_PERCENTAGE"
    ELSE "OK"

\* Faulty variant: the voltage layers are both tested before the percentage layers.
check_shutdown_conditions_VoltageFirst(b) ==
    IF ~b.ok THEN "OK"
    ELSE IF Truthy(b.error) THEN "OK"
    ELSE IF b.voltage <= VOLTAGE_CRITICAL /\ b.voltage > 0 THEN "CRITICAL_VOLTAGE"
    ELSE IF b.voltage <= VOLTAGE_WARNING /\ b.voltage > 0 THEN "WARNING_VOLTAGE"
    ELSE IF b.percent_user <= PERCENTAGE_CRITICAL THEN "CRITICAL_PERCENTAGE"
    ELSE IF b.percent_user <= PERCENTAGE_WARNING THEN "WARNING_PERCENTAGE"
    ELSE "OK"

\* Faulty variant: the warning percentage is compared with < instead of <=.
check_shutdown_conditions_StrictWarning(b) ==
    IF ~b.ok THEN "OK"
    ELSE IF Truthy(b.error) THEN "OK"
    ELSE IF b.voltage <= VOLTAGE_CRITICAL /\ b.voltage > 0 THEN "CRITICAL_VOLTAGE"
    ELSE IF b.percent_user <= PERCENTAGE_CRITICAL THEN "CRITICAL_PERCENTAGE"
    ELSE IF b.voltage <= VOLTAGE_WARNING /\ b.voltage > 0 THEN "WARNING_VOLTAGE"
    ELSE IF b.percent_user < PERCENTAGE_WARNING THEN "WARNING_PERCENTAGE"
    ELSE "OK"

check_shutdown_conditions(b) ==
    IF ~b.ok THEN "OK"
    ELSE IF Truthy(b.error) THEN "OK"
    ELSE IF b.voltage <= VOLTAGE_CRITICAL /\ b.voltage > 0 THEN "CRITICAL_VOLTAGE"
    ELSE IF b.percent_user <= PERCENTAGE_CRITICAL THEN "CRITICAL_PERCENTAGE"
    ELSE IF b.voltage <= VOLTAGE_WARNING /\ b.voltage > 0 THEN "WARNING_VOLTAGE"
    ELSE IF b.percent_user <= PERCENTAGE_WARNING THEN "WARNING_PERCENTAGE"
    ELSE "OK"

Critical == {"CRITICAL_VOLTAGE", "CRITICAL_PERCENTAGE"}
Warning == {"WARNING_VOLTAGE", "WARNING_PERCENTAGE"}

\* Positions inside show_critical_shutdown_countdown.
CountdownPcs == {"countdown_user", "countdown_initial", "tick", "tick_sleep",
                 "final_alert", "final_sleep", "shutdown", "except"}

\* Positions whose subprocess calls sit in a bare  try: ... except: pass.
BareExceptPcs == {"countdown_initial", "tick", "final_alert", "warn_notify"}

\* No acquisition process runs or has run: no state file, the chip never reset.
NoAcquisition ==
    /\ AcquisitionIdle
    /\ stateFile = StateAbsent
    /\ sinceChipReset = AgeCap
    /\ window = "closed"
    /\ gauge = "typical"
    /\ streak = <<>>
    /\ manual = ManualIdle

\* LayeredAlertMonitor.__init__, and run about to be called.
MonitorStart ==
    /\ pc = "start"
    /\ running = TRUE
    /\ shutdown_initiated = FALSE
    /\ warning_shown = FALSE
    /\ sinceWarning = AgeCap
    /\ sinceNotified = AgeCap
    /\ polled = None
    /\ condition = "OK"
    /\ battery = None
    /\ remaining = 0
    /\ ticks = 0
    /\ shutdownCalls = 0
    /\ fellThrough = FALSE
    /\ reminders = <<>>
    /\ notifyOutcome = "none"

Init ==
    /\ statusFile \in {Missing} \cup Published \cup {Stale(f) : f \in Published}
    /\ MonitorStart
    /\ NoAcquisition

\* time.sleep(d) returning: d seconds have passed.
Elapse(d) ==
    /\ statusFile' \in {statusFile, Stale(statusFile)}
    /\ sinceWarning' = Min(sinceWarning + d, AgeCap)
    /\ sinceNotified' = Min(sinceNotified + d, AgeCap)

\* How subprocess.run(['wall', ...], capture_output=True, timeout=t) and the
\* dialog launch of one notification end: they return, they raise (the command
\* is missing, the user lookup fails), or wall is still running after t seconds
\* and TimeoutExpired is raised.
NotifyOutcomes == {"returned", "failed", "timeout"}

\* Seconds subprocess.run(..., timeout=t) keeps its caller: it waits for the
\* command to end, at most t seconds.
WallSeconds(outcome, timeout) == IF outcome = "timeout" THEN timeout ELSE 0

\* if remaining <= 5 or remaining % 5 == 0
ReminderDue(r) == r <= 5 \/ r % 5 = 0

\* A step that makes no notification call.
Quiet ==
    /\ notifyOutcome' = "none"
    /\ UNCHANGED reminders

\* run, lines 296-301: the start-up log lines and log_battery_status.
Start ==
    /\ pc = "start"
    /\ pc' = "while"
    /\ UNCHANGED <<statusFile, running, shutdown_initiated, warning_shown, sinceWarning,
                   sinceNotified, polled, condition, battery, remaining, ticks,
                   shutdownCalls, fellThrough>>
    /\ Quiet
    /\ UNCHANGED acqVars

\* while self.running: ... ; the finally clause ends run.
While ==
    /\ pc = "while"
    /\ pc' = IF running THEN "sleep" ELSE "done"
    /\ UNCHANGED <<statusFile, running, shutdown_initiated, warning_shown, sinceWarning,
                   sinceNotified, polled, condition, battery, remaining, ticks,
                   shutdownCalls, fellThrough>>
    /\ Quiet
    /\ UNCHANGED acqVars

\* time.sleep(POLL_INTERVAL)
PollSleep ==
    /\ pc = "sleep"
    /\ Elapse(POLL_INTERVAL)
    /\ pc' = "check"
    /\ UNCHANGED <<running, shutdown_initiated, warning_shown,
                   polled, condition, battery, remaining, ticks, shutdownCalls, fellThrough>>
    /\ Quiet
    /\ UNCHANGED acqVars

\* condition = self.check_shutdown_conditions(): one read of the file.
Check ==
    /\ pc = "check"
    /\ polled' = get_battery_data(statusFile)
    /\ condition' = check_shutdown_conditions(polled')
    /\ pc' = "branch"
    /\ UNCHANGED <<statusFile, running, shutdown_initiated, warning_shown, sinceWarning,
                   sinceNotified, battery, remaining, ticks, shutdownCalls, fellThrough>>
    /\ Quiet
    /\ UNCHANGED acqVars

\* Faulty variant: a warning verdict takes the critical branch too.
Branch_WarningEscalates ==
    /\ pc = "branch"
    /\ IF condition \in Critical \cup Warning /\ ~shutdown_initiated
       THEN /\ shutdown_initiated' = TRUE
            /\ pc' = "crit_read"
            /\ UNCHANGED warning_shown
       ELSE /\ pc' = "while"
            /\ warning_shown' = IF condition = "OK" THEN FALSE ELSE warning_shown
            /\ UNCHANGED shutdown_initiated
    /\ polled' = None
    /\ UNCHANGED <<statusFile, running, sinceWarning, sinceNotified,
                   condition, battery, remaining, ticks, shutdownCalls, fellThrough>>
    /\ Quiet
    /\ UNCHANGED acqVars

\* Faulty variant: the latch test is inverted, so the critical branch is never taken.
Branch_LatchInverted ==
    /\ pc = "branch"
    /\ IF condition \in Critical /\ shutdown_initiated
       THEN /\ shutdown_initiated' = TRUE
            /\ pc' = "crit_read"
            /\ UNCHANGED warning_shown
       ELSE IF condition \in Warning
       THEN /\ pc' = "warn_read"
            /\ UNCHANGED <<shutdown_initiated, warning_shown>>
       ELSE /\ pc' = "while"
            /\ warning_shown' = IF condition = "OK" THEN FALSE ELSE warning_shown
            /\ UNCHANGED shutdown_initiated
    /\ polled' = None
    /\ UNCHANGED <<statusFile, running, sinceWarning, sinceNotified,
                   condition, battery, remaining, ticks, shutdownCalls, fellThrough>>
    /\ Quiet
    /\ UNCHANGED acqVars

\* The if / elif / elif of run, lines 308-328.
Branch ==
    /\ pc = "branch"
    /\ IF condition \in Critical /\ ~shutdown_initiated
       THEN /\ shutdown_initiated' = TRUE
            /\ pc' = "crit_read"
            /\ UNCHANGED warning_shown
       ELSE IF condition \in Warning
       THEN /\ pc' = "warn_read"
            /\ UNCHANGED <<shutdown_initiated, warning_shown>>
       ELSE /\ pc' = "while"
            /\ warning_shown' = IF condition = "OK" THEN FALSE ELSE warning_shown
            /\ UNCHANGED shutdown_initiated
    /\ polled' = None
    /\ UNCHANGED <<statusFile, running, sinceWarning, sinceNotified,
                   condition, battery, remaining, ticks, shutdownCalls, fellThrough>>
    /\ Quiet
    /\ UNCHANGED acqVars

\* Faulty variant: the second read is judged again, and a record that is no
\* longer critical sends run back to its loop.
CriticalRead_JudgedAgain ==
    /\ pc = "crit_read"
    /\ battery' = get_battery_data(statusFile)
    /\ pc' = IF check_shutdown_conditions(battery') \in Critical
             THEN "countdown_user" ELSE "while"
    /\ UNCHANGED <<statusFile, running, shutdown_initiated, warning_shown, sinceWarning,
                   sinceNotified, polled, condition, remaining, ticks, shutdownCalls, fellThrough>>
    /\ Quiet
    /\ UNCHANGED acqVars

\* battery = self.get_battery_data() of the critical branch: a second read.
CriticalRead ==
    /\ pc = "crit_read"
    /\ battery' = get_battery_data(statusFile)
    /\ pc' = "countdown_user"
    /\ UNCHANGED <<statusFile, running, shutdown_initiated, warning_shown, sinceWarning,
                   sinceNotified, polled, condition, remaining, ticks, shutdownCalls, fellThrough>>
    /\ Quiet
    /\ UNCHANGED acqVars

\* battery = self.get_battery_data() of the warning branch.
WarningRead ==
    /\ pc = "warn_read"
    /\ battery' = get_battery_data(statusFile)
    /\ pc' = "warn"
    /\ UNCHANGED <<statusFile, running, shutdown_initiated, warning_shown, sinceWarning,
                   sinceNotified, polled, condition, remaining, ticks, shutdownCalls, fellThrough>>
    /\ Quiet
    /\ UNCHANGED acqVars

\* Faulty variant: last_warning_time is not set when a warning is shown.
show_low_battery_warning_StampNotSet ==
    /\ Quiet
    /\ UNCHANGED acqVars
    /\ pc = "warn"
    /\ IF sinceWarning < WARNING_INTERVAL
       THEN pc' = "while" /\ battery' = None
       ELSE pc' = "warn_notify" /\ UNCHANGED battery
    /\ UNCHANGED <<statusFile, running, shutdown_initiated, warning_shown, sinceWarning,
                   sinceNotified, polled, condition, remaining, ticks, shutdownCalls,
                   fellThrough>>

\* show_low_battery_warning up to the user lookup: at most one warning per 300 s.
show_low_battery_warning ==
    /\ pc = "warn"
    /\ IF sinceWarning < WARNING_INTERVAL
       THEN pc' = "while" /\ battery' = None /\ UNCHANGED sinceWarning
       ELSE pc' = "warn_notify" /\ sinceWarning' = 0 /\ UNCHANGED battery
    /\ UNCHANGED <<statusFile, running, shutdown_initiated, warning_shown, sinceNotified,
                   polled, condition, remaining, ticks, shutdownCalls, fellThrough>>
    /\ Quiet
    /\ UNCHANGED acqVars

\* wall and the desktop dialog of the warning; their failures are swallowed.
WarnNotify ==
    /\ pc = "warn_notify"
    /\ pc' = "while"
    /\ battery' = None
    /\ sinceNotified' = 0
    /\ notifyOutcome' \in NotifyOutcomes
    /\ UNCHANGED <<statusFile, running, shutdown_initiated, warning_shown, sinceWarning,
                   polled, condition, remaining, ticks, shutdownCalls, fellThrough,
                   reminders>>
    /\ UNCHANGED acqVars

\* ------------------------------------------- show_critical_shutdown_countdown

\* username = self.get_active_user_info(): it catches its own failures.  run
\* leaves its loop after the countdown (break, line 316) and never reads
\* last_warning_time again: its age is no longer followed and is left at the cap.
CountdownUser ==
    /\ pc = "countdown_user"
    /\ pc' = "countdown_initial"
    /\ sinceWarning' = AgeCap
    /\ sinceNotified' = AgeCap
    /\ UNCHANGED <<statusFile, running, shutdown_initiated, warning_shown,
                   polled, condition, battery, remaining, ticks,
                   shutdownCalls, fellThrough>>
    /\ Quiet
    /\ UNCHANGED acqVars

\* The initial alert (wall, dialog: failures swallowed), then the for loop starts.
CountdownInitial ==
    /\ pc = "countdown_initial"
    /\ remaining' = SHUTDOWN_DELAY
    /\ pc' = "tick"
    /\ battery' = None
    /\ notifyOutcome' \in NotifyOutcomes
    /\ UNCHANGED <<statusFile, running, shutdown_initiated, warning_shown, sinceWarning,
                   sinceNotified, polled, condition, ticks, shutdownCalls, fellThrough,
                   reminders>>
    /\ UNCHANGED acqVars

\* Faulty variant: the wall call of a reminder is outside the try, so a wall
\* that fails or times out leaves the loop for the except clause.
TickReminder_FailureAborts ==
    /\ pc = "tick"
    /\ IF ReminderDue(remaining)
       THEN /\ notifyOutcome' \in NotifyOutcomes
            /\ Elapse(WallSeconds(notifyOutcome', 1))
            /\ reminders' = Append(reminders, remaining)
            /\ pc' = IF notifyOutcome' = "returned" THEN "tick_sleep" ELSE "except"
            /\ fellThrough' = (notifyOutcome' # "returned")
       ELSE /\ Quiet
            /\ pc' = "tick_sleep"
            /\ UNCHANGED <<statusFile, sinceWarning, sinceNotified, fellThrough>>
    /\ UNCHANGED <<running, shutdown_initiated, warning_shown,
                   polled, condition, battery, remaining, ticks, shutdownCalls>>
    /\ UNCHANGED acqVars

\* Faulty variant: the test is  remaining % 5 == 0  only.
TickReminder_EveryFifthOnly ==
    /\ pc = "tick"
    /\ pc' = "tick_sleep"
    /\ IF remaining % 5 = 0
       THEN /\ notifyOutcome' \in NotifyOutcomes
            /\ Elapse(WallSeconds(notifyOutcome', 1))
            /\ reminders' = Append(reminders, remaining)
       ELSE /\ Quiet
            /\ UNCHANGED <<statusFile, sinceWarning, sinceNotified>>
    /\ UNCHANGED <<running, shutdown_initiated, warning_shown,
                   polled, condition, battery, remaining, ticks, shutdownCalls,
                   fellThrough>>
    /\ UNCHANGED acqVars

\* The body of one tick up to its sleep, lines 249-260.  When a reminder is due,
\* subprocess.run(['wall', message], capture_output=True, timeout=1) is called
\* in a bare try and waited for, up to its timeout, and the message is logged
\* whatever became of wall.
TickReminder ==
    /\ pc = "tick"
    /\ pc' = "tick_sleep"
    /\ IF ReminderDue(remaining)
       THEN /\ notifyOutcome' \in NotifyOutcomes
            /\ Elapse(WallSeconds(notifyOutcome', 1))
            /\ reminders' = Append(reminders, remaining)
       ELSE /\ Quiet
            /\ UNCHANGED <<statusFile, sinceWarning, sinceNotified>>
    /\ UNCHANGED <<running, shutdown_initiated, warning_shown,
                   polled, condition, battery, remaining, ticks, shutdownCalls,
                   fellThrough>>
    /\ UNCHANGED acqVars

\* Faulty variant: the loop is range(SHUTDOWN_DELAY, 1, -1), one tick short.
TickSleep_OneTickShort ==
    /\ pc = "tick_sleep"
    /\ \E raised \in BOOLEAN :
          IF raised
          THEN /\ pc' = "except"
               /\ fellThrough' = TRUE
               /\ UNCHANGED <<statusFile, sinceWarning, sinceNotified, remaining, ticks>>
          ELSE /\ Elapse(1)
               /\ ticks' = ticks + 1
               /\ remaining' = IF remaining > 2 THEN remaining - 1 ELSE remaining
               /\ pc' = IF remaining > 2 THEN "tick" ELSE "final_alert"
               /\ UNCHANGED fellThrough
    /\ UNCHANGED <<running, shutdown_initiated, warning_shown,
                   polled, condition, battery, shutdownCalls>>
    /\ Quiet
    /\ UNCHANGED acqVars

\* time.sleep(1) of one tick; it is outside every inner try, so an exception
\* raised here goes to the except Exception clause of the countdown.
TickSleep ==
    /\ pc = "tick_sleep"
    /\ \E raised \in BOOLEAN :
          IF raised
          THEN /\ pc' = "except"
               /\ fellThrough' = TRUE
               /\ UNCHANGED <<statusFile, sinceWarning, sinceNotified, remaining, ticks>>
          ELSE /\ Elapse(1)
               /\ ticks' = ticks + 1
               /\ remaining' = IF remaining > 1 THEN remaining - 1 ELSE remaining
               /\ pc' = IF remaining > 1 THEN "tick" ELSE "final_alert"
               /\ UNCHANGED fellThrough
    /\ UNCHANGED <<running, shutdown_initiated, warning_shown,
                   polled, condition, battery, shutdownCalls>>
    /\ Quiet
    /\ UNCHANGED acqVars

\* The final alert (wall and dialog in one bare try).
FinalAlert ==
    /\ pc = "final_alert"
    /\ pc' = "final_sleep"
    /\ notifyOutcome' \in NotifyOutcomes
    /\ UNCHANGED <<statusFile, running, shutdown_initiated, warning_shown, sinceWarning,
                   sinceNotified, polled, condition, battery, remaining, ticks,
                   shutdownCalls, fellThrough, reminders>>
    /\ UNCHANGED acqVars

\* time.sleep(2) before the shutdown command.
FinalSleep ==
    /\ pc = "final_sleep"
    /\ \E raised \in BOOLEAN :
          IF raised
          THEN /\ pc' = "except"
               /\ fellThrough' = TRUE
               /\ UNCHANGED <<statusFile, sinceWarning, sinceNotified>>
          ELSE /\ Elapse(FINAL_PAUSE)
               /\ pc' = "shutdown"
               /\ UNCHANGED fellThrough
    /\ UNCHANGED <<running, shutdown_initiated, warning_shown,
                   polled, condition, battery, remaining, ticks, shutdownCalls>>
    /\ Quiet
    /\ UNCHANGED acqVars

\* Faulty variant: the break after the countdown is missing.
Shutdown_NoBreak ==
    /\ pc = "shutdown"
    /\ shutdownCalls' = shutdownCalls + 1
    /\ \E raised \in BOOLEAN :
          IF raised
          THEN pc' = "except" /\ fellThrough' = TRUE
          ELSE pc' = "while" /\ UNCHANGED fellThrough
    /\ UNCHANGED <<statusFile, running, shutdown_initiated, warning_shown, sinceWarning,
                   sinceNotified, polled, condition, battery, remaining, ticks>>
    /\ Quiet
    /\ UNCHANGED acqVars

\* subprocess.run(['sudo', 'shutdown', '-h', 'now']) at the end of the try; it
\* returns, or raises (the command cannot be started) into the except clause.
Shutdown ==
    /\ pc = "shutdown"
    /\ shutdownCalls' = shutdownCalls + 1
    /\ \E raised \in BOOLEAN :
          IF raised
          THEN pc' = "except" /\ fellThrough' = TRUE
          ELSE pc' = "done" /\ UNCHANGED fellThrough
    /\ UNCHANGED <<statusFile, running, shutdown_initiated, warning_shown, sinceWarning,
                   sinceNotified, polled, condition, battery, remaining, ticks>>
    /\ Quiet
    /\ UNCHANGED acqVars

\* Faulty variant: the except clause only logs the error.
EmergencyShutdown_LogOnly ==
    /\ pc = "except"
    /\ pc' = "done"
    /\ UNCHANGED <<statusFile, running, shutdown_initiated, warning_shown, sinceWarning,
                   sinceNotified, polled, condition, battery, remaining, ticks,
                   shutdownCalls, fellThrough>>
    /\ Quiet
    /\ UNCHANGED acqVars

\* except Exception: the shutdown command again.  Whether it returns or raises
\* (into the except Exception of run), run ends.
EmergencyShutdown ==
    /\ pc = "except"
    /\ shutdownCalls' = shutdownCalls + 1
    /\ pc' = "done"
    /\ UNCHANGED <<statusFile, running, shutdown_initiated, warning_shown, sinceWarning,
                   sinceNotified, polled, condition, battery, remaining, ticks, fellThrough>>
    /\ Quiet
    /\ UNCHANGED acqVars

\* The statement that follows the bare try a position is in.
AfterTry(p) ==
    CASE p = "countdown_initial" -> "tick"
      [] p = "tick" -> "tick_sleep"
      [] p = "final_alert" -> "final_sleep"
      [] p = "warn_notify" -> "while"
      [] OTHER -> "exited"

\* signal_handler on SIGTERM or SIGINT: self.running = False, then sys.exit(0)
\* raises SystemExit where the main thread is.  except Exception does not catch
\* it; a bare except does, and the code goes on after that try.
signal_handler ==
    /\ pc \notin {"done", "exited"}
    /\ running' = FALSE
    /\ \E swallowed \in BOOLEAN :
          /\ swallowed => /\ pc \in BareExceptPcs
                          /\ pc = "tick" => ReminderDue(remaining)
          /\ pc' = IF swallowed THEN AfterTry(pc) ELSE "exited"
          /\ notifyOutcome' = IF swallowed THEN "failed" ELSE "none"
          /\ reminders' = IF swallowed /\ pc = "tick"
                          THEN Append(reminders, remaining) ELSE reminders
          /\ sinceNotified' = IF swallowed /\ pc = "warn_notify" THEN 0 ELSE sinceNotified
          /\ remaining' = IF swallowed /\ pc = "countdown_initial"
                          THEN SHUTDOWN_DELAY ELSE remaining
          /\ battery' = IF swallowed /\ pc \in {"countdown_initial", "warn_notify"}
                        THEN None ELSE battery
    /\ UNCHANGED <<statusFile, shutdown_initiated, warning_shown, sinceWarning,
                   polled, condition, ticks, shutdownCalls, fellThrough>>
    /\ UNCHANGED acqVars

\* ------------------------------------------------------------ the status file

\* write_status: open(..., 'w') has truncated the file.
WriteStatusOpen ==
    /\ statusFile.kind # "garbage"
    /\ statusFile' = Truncated
    /\ UNCHANGED monitorVars
    /\ UNCHANGED acqVars

\* write_status: json.dump has written the record of this cycle.
WriteStatusDump ==
    /\ \E status \in Published :
          /\ statusFile # status
          /\ statusFile' = status
    /\ UNCHANGED monitorVars
    /\ UNCHANGED acqVars

\* The file is removed (/tmp is cleaned): the next open raises FileNotFoundError.
RemoveStatus ==
    /\ statusFile.kind # "missing"
    /\ statusFile' = Missing
    /\ UNCHANGED monitorVars
    /\ UNCHANGED acqVars

MonitorStep ==
    \/ Start
    \/ While
    \/ PollSleep
    \/ Check
    \/ Branch
    \/ CriticalRead
    \/ WarningRead
    \/ show_low_battery_warning
    \/ WarnNotify
    \/ CountdownUser
    \/ CountdownInitial
    \/ TickReminder
    \/ TickSleep
    \/ FinalAlert
    \/ FinalSleep
    \/ Shutdown
    \/ EmergencyShutdown

Next ==
    \/ MonitorStep
    \/ signal_handler
    \/ WriteStatusOpen
    \/ WriteStatusDump
    \/ RemoveStatus

Spec == Init /\ [][Next]_vars

\* The scheduler runs the monitor process: a step it can take is not put off
\* for ever.
FairSpec == Spec /\ WF_vars(MonitorStep)

\* ------------------------------------------------------ the acquisition cycle

\* Seconds between two runs of battery-oneshot.py.
CycleGaps == {60, 298}

\* A run of bad readings is followed for AgeCap seconds from its first reading.
StreakAged(s, d) ==
    IF s = <<>> \/ s[1] + d > AgeCap THEN <<>> ELSE <<s[1] + d, s[2]>>

\* Time passing for the files, the chip and the attributes of the first process.
FilesElapse(d) ==
    /\ statusFile' \in {statusFile, Stale(statusFile)}
    /\ stateFile' = AgedState(stateFile, d)
    /\ last_reset' = Min(last_reset + d, AgeCap)
    /\ sinceChipReset' = Min(sinceChipReset + d, AgeCap)
    /\ window' \in IF window = "recent" THEN {"recent", "closed"} ELSE {window}
    /\ streak' = StreakAged(streak, d)

\* Time passing for the acquisition processes and their files.
AcqElapse(d) ==
    /\ FilesElapse(d)
    /\ manual' = ManualAged(manual, d)

\* What save_state writes.
save_state(lr, bc, lv) == StateFile("object", <<lr>>, <<bc>>, <<lv>>)

\* The process returns from main or from manual_reset and exits.
ProcessEnds ==
    /\ apc' = "idle"
    /\ mode' = ""
    /\ last_reset' = AgeCap
    /\ bad_reading_count' = 0
    /\ last_voltage' = 0
    /\ current_time' = 0
    /\ reading' = NoReading
    /\ reason' = ""
    /\ cycle_status' = NoStatus
    /\ unhandled' = ""
    /\ events' = <<>>

\* An exception leaves main: the interpreter prints the traceback and exits.
ProcessDies(exception) ==
    /\ apc' = "crashed"
    /\ mode' = ""
    /\ last_reset' = AgeCap
    /\ bad_reading_count' = 0
    /\ last_voltage' = 0
    /\ current_time' = 0
    /\ reading' = NoReading
    /\ reason' = ""
    /\ cycle_status' = NoStatus
    /\ unhandled' = exception
    /\ events' = <<>>

\* An exception leaves BatteryMonitor(): main does not catch it, manual_reset
\* does (except Exception) and returns False.
ConstructorRaises(exception) ==
    IF mode = "cycle" THEN ProcessDies(exception) ELSE ProcessEnds

\* Until the timer or the user runs battery-oneshot.py again.
AcqWait ==
    /\ apc \in {"idle", "crashed"}
    /\ \E d \in CycleGaps : AcqElapse(d)
    /\ UNCHANGED <<monitorVars, apc, mode, bad_reading_count, last_voltage, current_time,
                   reading, reason, cycle_status, unhandled, events>>
    /\ UNCHANGED gauge

\* battery-oneshot.py is run, without argument or with the argument reset.
AcqStart ==
    /\ apc \in {"idle", "crashed"}
    /\ \E m \in {"cycle", "reset"} : mode' = m
    /\ apc' = "open_bus"
    /\ unhandled' = ""
    /\ UNCHANGED <<statusFile, monitorVars, stateFile, last_reset, bad_reading_count,
                   last_voltage, current_time, reading, reason, cycle_status, events,
                   sinceChipReset, window>>
    /\ UNCHANGED <<gauge, streak, manual>>

\* __init__: self.bus = smbus.SMBus(3) raises when the bus cannot be opened.
OpenBus ==
    /\ apc = "open_bus"
    /\ \E fault \in BOOLEAN :
          IF fault
          THEN ConstructorRaises("OSError")
          ELSE /\ apc' = "load_state"
               /\ UNCHANGED <<mode, last_reset, bad_reading_count, last_voltage,
                              current_time, reading, reason, cycle_status, unhandled,
                              events>>
    /\ UNCHANGED <<statusFile, monitorVars, stateFile, sinceChipReset, window>>
    /\ UNCHANGED <<gauge, streak, manual>>

\* __init__: self.load_state().
LoadState ==
    /\ apc = "load_state"
    /\ LET loaded == load_state(stateFile)
       IN  IF loaded.exception # ""
           THEN ConstructorRaises(loaded.exception)
           ELSE /\ last_reset' = loaded.last_reset
                /\ bad_reading_count' = loaded.bad_reading_count
                /\ last_voltage' = loaded.last_voltage
                /\ apc' = IF mode = "cycle" THEN "read" ELSE "reset_check"
                /\ UNCHANGED <<mode, current_time, reading, reason, cycle_status,
                               unhandled, events>>
    /\ UNCHANGED <<statusFile, monitorVars, stateFile, sinceChipReset, window>>
    /\ UNCHANGED <<gauge, streak, manual>>

\* Faulty variant: a failed read counts as a bad reading and is saved.
Read_FaultSavesState ==
    /\ apc = "read"
    /\ \E fault \in BOOLEAN :
          IF fault
          THEN /\ cycle_status' = create_error_status("I2C error")
               /\ apc' = "write_open"
               /\ events' = Append(events, "read_fault")
               /\ stateFile' = save_state(last_reset, bad_reading_count + 1, last_voltage)
               /\ UNCHANGED reading
          ELSE /\ \E regs \in GaugeWords(gauge) : reading' = read_raw_data(regs[1], regs[2])
               /\ apc' = "validate"
               /\ events' = Append(events, "read")
               /\ UNCHANGED <<cycle_status, stateFile>>
    /\ UNCHANGED <<statusFile, monitorVars, mode, last_reset,
                   bad_reading_count, last_voltage, current_time, reason, unhandled,
                   sinceChipReset, window>>
    /\ UNCHANGED <<gauge, streak, manual>>

\* read_battery_with_validation, line 211: the first read_raw_data.  A bus
\* fault goes to the except clause at the end of the method.
Read ==
    /\ apc = "read"
    /\ \E fault \in BOOLEAN :
          IF fault
          THEN /\ cycle_status' = create_error_status("I2C error")
               /\ apc' = "write_open"
               /\ events' = Append(events, "read_fault")
               /\ UNCHANGED reading
          ELSE /\ \E regs \in GaugeWords(gauge) : reading' = read_raw_data(regs[1], regs[2])
               /\ apc' = "validate"
               /\ events' = Append(events, "read")
               /\ UNCHANGED cycle_status
    /\ UNCHANGED <<statusFile, monitorVars, stateFile, mode, last_reset,
                   bad_reading_count, last_voltage, current_time, reason, unhandled,
                   sinceChipReset, window>>
    /\ UNCHANGED <<gauge, streak, manual>>

\* status['validation'] of a bad reading below the threshold.
BadValidation(r, count) ==
    [bad_reading |-> TRUE, reason |-> r, bad_count |-> count,
     threshold |-> BAD_READING_THRESHOLD]

\* status['reset_info'] after a reset.
ResetPerformed(r, message) ==
    [reset_performed |-> TRUE, reset_attempted |-> FALSE, reset_failed |-> FALSE,
     reason |-> r, message |-> <<message>>, error |-> <<>>]

\* status['reset_info'] when reset_max_chip returned False.
ResetFailed(r, message) ==
    [reset_performed |-> FALSE, reset_attempted |-> TRUE, reset_failed |-> TRUE,
     reason |-> r, message |-> <<>>, error |-> <<message>>]

\* The status of the reading held, as the branches of
\* read_battery_with_validation build it.
StatusOf(r) == create_status(r.voltage, r.raw_percent, r.user_percent)

\* Faulty variant: a good reading leaves bad_reading_count as it is.
Validate_KeepsCount ==
    /\ apc = "validate"
    /\ LET verdict == is_bad_reading(reading.voltage, reading.raw_percent,
                                     reading.user_percent, last_voltage)
       IN  IF verdict[1]
           THEN /\ bad_reading_count < MaxBadCount
                /\ bad_reading_count' = bad_reading_count + 1
                /\ reason' = verdict[2]
                /\ streak' = IF streak = <<>> THEN <<0, 0>> ELSE streak
                /\ IF bad_reading_count + 1 >= BAD_READING_THRESHOLD
                   THEN apc' = "reset_check" /\ UNCHANGED cycle_status
                   ELSE /\ apc' = "finish"
                        /\ cycle_status' =
                              [StatusOf(reading) EXCEPT !.validation =
                                  <<BadValidation(verdict[2], bad_reading_count + 1)>>]
                /\ UNCHANGED <<stateFile, events>>
           ELSE /\ UNCHANGED <<bad_reading_count, stateFile>>
                /\ cycle_status' =
                      [StatusOf(reading) EXCEPT !.validation = <<[reading_ok |-> TRUE]>>]
                /\ UNCHANGED events
                /\ apc' = "finish"
                /\ UNCHANGED reason
                /\ streak' = <<>>
    /\ UNCHANGED <<statusFile, monitorVars, mode, last_reset, last_voltage, current_time,
                   reading, unhandled, sinceChipReset, window>>
    /\ UNCHANGED <<gauge, manual>>

\* read_battery_with_validation, lines 214-262 up to the call of
\* reset_max_chip: the verdict on the reading and the count of bad readings.
Validate ==
    /\ apc = "validate"
    /\ LET verdict == is_bad_reading(reading.voltage, reading.raw_percent,
                                     reading.user_percent, last_voltage)
       IN  IF verdict[1]
           THEN /\ bad_reading_count < MaxBadCount
                /\ bad_reading_count' = bad_reading_count + 1
                /\ reason' = verdict[2]
                /\ streak' = IF streak = <<>> THEN <<0, 0>> ELSE streak
                /\ IF bad_reading_count + 1 >= BAD_READING_THRESHOLD
                   THEN apc' = "reset_check" /\ UNCHANGED cycle_status
                   ELSE /\ apc' = "finish"
                        /\ cycle_status' =
                              [StatusOf(reading) EXCEPT !.validation =
                                  <<BadValidation(verdict[2], bad_reading_count + 1)>>]
                /\ UNCHANGED <<stateFile, events>>
           ELSE /\ bad_reading_count' = IF bad_reading_count > 0 THEN 0
                                       ELSE bad_reading_count
                /\ stateFile' = IF bad_reading_count > 0
                                THEN save_state(last_reset, 0, last_voltage)
                                ELSE stateFile
                /\ cycle_status' =
                      [StatusOf(reading) EXCEPT !.validation = <<[reading_ok |-> TRUE]>>]
                /\ events' = IF bad_reading_count > 0 THEN Append(events, "save")
                              ELSE events
                /\ apc' = "finish"
                /\ UNCHANGED reason
                /\ streak' = <<>>
    /\ UNCHANGED <<statusFile, monitorVars, mode, last_reset, last_voltage, current_time,
                   reading, unhandled, sinceChipReset, window>>
    /\ UNCHANGED <<gauge, manual>>

\* reset_max_chip returned False to read_battery_with_validation (lines
\* 236-245) or to manual_reset, which prints the message.
ResetRefused(message) ==
    IF mode = "cycle"
    THEN /\ cycle_status' =
               [StatusOf(reading) EXCEPT !.reset_info = <<ResetFailed(reason, message)>>]
         /\ apc' = "finish"
         /\ UNCHANGED <<mode, last_reset, bad_reading_count, last_voltage, reading,
                        reason, unhandled>>
    ELSE /\ apc' = "idle"
         /\ mode' = ""
         /\ last_reset' = AgeCap
         /\ bad_reading_count' = 0
         /\ last_voltage' = 0
         /\ reading' = NoReading
         /\ reason' = ""
         /\ cycle_status' = NoStatus
         /\ unhandled' = ""

\* Faulty variant: the cooldown still holds when exactly RESET_COOLDOWN seconds
\* have passed.
ResetCheck_CooldownInclusive ==
    /\ apc = "reset_check"
    /\ IF last_reset <= RESET_COOLDOWN
       THEN /\ ResetRefused("Reset cooldown active")
            /\ current_time' = 0
            /\ events' = IF mode = "cycle" THEN Append(events, "cooldown") ELSE <<>>
       ELSE /\ apc' = "reset_write"
            /\ current_time' = 0
            /\ UNCHANGED <<mode, last_reset, bad_reading_count, last_voltage, reading,
                           reason, cycle_status, unhandled, events>>
    /\ UNCHANGED <<statusFile, monitorVars, stateFile, sinceChipReset, window>>
    /\ UNCHANGED <<gauge, streak, manual>>

\* Faulty variant: the cooldown ends after a fifth of RESET_COOLDOWN.
ResetCheck_ShortCooldown ==
    /\ apc = "reset_check"
    /\ IF last_reset < RESET_COOLDOWN \div 5
       THEN /\ ResetRefused("Reset cooldown active")
            /\ current_time' = 0
            /\ events' = IF mode = "cycle" THEN Append(events, "cooldown") ELSE <<>>
       ELSE /\ apc' = "reset_write"
            /\ current_time' = 0
            /\ UNCHANGED <<mode, last_reset, bad_reading_count, last_voltage, reading,
                           reason, cycle_status, unhandled, events>>
    /\ UNCHANGED <<statusFile, monitorVars, stateFile, sinceChipReset, window>>
    /\ UNCHANGED <<gauge, streak, manual>>

\* Faulty variant: the cooldown is not checked.
ResetCheck_NoCooldown ==
    /\ apc = "reset_check"
    /\ apc' = "reset_write"
    /\ current_time' = 0
    /\ UNCHANGED <<mode, last_reset, bad_reading_count, last_voltage, reading,
                   reason, cycle_status, unhandled, events>>
    /\ UNCHANGED <<statusFile, monitorVars, stateFile, sinceChipReset, window>>
    /\ UNCHANGED <<gauge, streak, manual>>

\* reset_max_chip, lines 184-188: the cooldown.
ResetCheck ==
    /\ apc = "reset_check"
    /\ IF last_reset < RESET_COOLDOWN
       THEN /\ ResetRefused("Reset cooldown active")
            /\ current_time' = 0
            /\ events' = IF mode = "cycle" THEN Append(events, "cooldown") ELSE <<>>
       ELSE /\ apc' = "reset_write"
            /\ current_time' = 0
            /\ UNCHANGED <<mode, last_reset, bad_reading_count, last_voltage, reading,
                           reason, cycle_status, unhandled, events>>
    /\ UNCHANGED <<statusFile, monitorVars, stateFile, sinceChipReset, window>>
    /\ UNCHANGED <<gauge, streak, manual>>

\* The reset command reached the chip: one more reset in the run followed.
StreakReset(s) == IF s = <<>> THEN s ELSE <<s[1], s[2] + 1>>

\* Faulty variant: the state is updated before the write, so a failed write
\* starts the cooldown and zeroes the count.
ResetWrite_FaultStartsCooldown ==
    /\ apc = "reset_write"
    /\ \E fault \in BOOLEAN :
          IF fault
          THEN /\ IF mode = "cycle"
                  THEN /\ cycle_status' =
                             [StatusOf(reading) EXCEPT
                                 !.reset_info = <<ResetFailed(reason, "Reset failed")>>]
                       /\ apc' = "finish"
                       /\ last_reset' = 0
                       /\ bad_reading_count' = 0
                       /\ events' = Append(events, "write_fault")
                       /\ UNCHANGED <<mode, last_voltage, reading, reason, unhandled>>
                  ELSE ProcessEnds
               /\ stateFile' = save_state(0, 0, last_voltage)
               /\ current_time' = 0
               /\ UNCHANGED <<sinceChipReset, streak>>
          ELSE /\ sinceChipReset' = 0
               /\ streak' = StreakReset(streak)
               /\ apc' = "reset_wait"
               /\ events' = Append(events, "reset_write")
               /\ UNCHANGED <<mode, last_reset, bad_reading_count, last_voltage,
                              current_time, reading, reason, cycle_status, unhandled,
                              stateFile>>
    /\ UNCHANGED <<statusFile, monitorVars, window>>
    /\ UNCHANGED <<gauge, manual>>

\* reset_max_chip, line 193: the reset command is written to register 0x0C; a
\* bus fault goes to except Exception, which returns False.
ResetWrite ==
    /\ apc = "reset_write"
    /\ \E fault \in BOOLEAN :
          IF fault
          THEN /\ ResetRefused("Reset failed")
               /\ current_time' = 0
               /\ events' = IF mode = "cycle" THEN Append(events, "write_fault") ELSE <<>>
               /\ UNCHANGED <<sinceChipReset, streak>>
          ELSE /\ sinceChipReset' = 0
               /\ streak' = StreakReset(streak)
               /\ apc' = "reset_wait"
               /\ events' = Append(events, "reset_write")
               /\ UNCHANGED <<mode, last_reset, bad_reading_count, last_voltage,
                              current_time, reading, reason, cycle_status, unhandled>>
    /\ UNCHANGED <<statusFile, monitorVars, stateFile, window>>
    /\ UNCHANGED <<gauge, manual>>

\* reset_max_chip, line 196: time.sleep(0.5); the clock's second changes
\* during it or not.
ResetWait ==
    /\ apc = "reset_wait"
    /\ \E d \in {0, 1} :
          /\ AcqElapse(d)
          /\ current_time' = current_time + d
    /\ apc' = "reset_update"
    /\ events' = Append(events, "wait")
    /\ UNCHANGED <<monitorVars, mode, bad_reading_count, last_voltage, reading, reason,
                   cycle_status, unhandled>>
    /\ UNCHANGED gauge

\* Faulty variant: the state is updated in memory and not saved.
ResetUpdate_NotSaved ==
    /\ apc = "reset_update"
    /\ IF mode = "cycle"
       THEN /\ last_reset' = current_time
            /\ bad_reading_count' = 0
            /\ current_time' = 0
            /\ apc' = "settle"
            /\ events' = Append(events, "update")
            /\ UNCHANGED <<mode, last_voltage, reading, reason, cycle_status, unhandled>>
       ELSE ProcessEnds
    /\ UNCHANGED <<statusFile, monitorVars, stateFile, sinceChipReset, window>>
    /\ UNCHANGED <<gauge, streak, manual>>

\* reset_max_chip, lines 199-203: the state is updated and saved, True is
\* returned; manual_reset then prints the message and the process exits.
ResetUpdate ==
    /\ apc = "reset_update"
    /\ stateFile' = save_state(current_time, 0, last_voltage)
    /\ IF mode = "cycle"
       THEN /\ last_reset' = current_time
            /\ bad_reading_count' = 0
            /\ current_time' = 0
            /\ apc' = "settle"
            /\ events' = Append(events, "update")
            /\ UNCHANGED <<mode, last_voltage, reading, reason, cycle_status, unhandled>>
       ELSE ProcessEnds
    /\ UNCHANGED <<statusFile, monitorVars, sinceChipReset, window>>
    /\ UNCHANGED <<gauge, streak, manual>>

\* read_battery_with_validation, line 225: time.sleep(1).
Settle ==
    /\ apc = "settle"
    /\ AcqElapse(1)
    /\ apc' = "reread"
    /\ events' = Append(events, "settle")
    /\ UNCHANGED <<monitorVars, mode, bad_reading_count, last_voltage, current_time,
                   reading, reason, cycle_status, unhandled>>
    /\ UNCHANGED gauge

\* read_battery_with_validation, lines 226-235: the registers are read again
\* and the status carries reset_info.
Reread ==
    /\ apc = "reread"
    /\ \E fault \in BOOLEAN :
          IF fault
          THEN /\ cycle_status' = create_error_status("I2C error")
               /\ apc' = "write_open"
               /\ events' = Append(events, "reread_fault")
               /\ UNCHANGED reading
          ELSE /\ \E regs \in GaugeWords(gauge) :
                     /\ reading' = read_raw_data(regs[1], regs[2])
                     /\ cycle_status' =
                           [StatusOf(reading') EXCEPT !.reset_info =
                               <<ResetPerformed(reason, "MAX chip reset successful")>>]
               /\ apc' = "finish"
               /\ events' = Append(events, "reread")
    /\ UNCHANGED <<statusFile, monitorVars, stateFile, mode, last_reset,
                   bad_reading_count, last_voltage, current_time, reason, unhandled,
                   sinceChipReset, window>>
    /\ UNCHANGED <<gauge, streak, manual>>

\* read_battery_with_validation, lines 265-268.
Finish ==
    /\ apc = "finish"
    /\ last_voltage' = reading.voltage
    /\ stateFile' = save_state(last_reset, bad_reading_count, reading.voltage)
    /\ apc' = "write_open"
    /\ events' = Append(events, "save")
    /\ UNCHANGED <<statusFile, monitorVars, mode, last_reset, bad_reading_count,
                   current_time, reading, reason, cycle_status, unhandled,
                   sinceChipReset, window>>
    /\ UNCHANGED <<gauge, streak, manual>>

\* write_status, line 316: open(..., 'w') truncates the status file.
PublishOpen ==
    /\ apc = "write_open"
    /\ statusFile' = Truncated
    /\ apc' = "write_dump"
    /\ UNCHANGED <<monitorVars, stateFile, mode, last_reset, bad_reading_count,
                   last_voltage, current_time, reading, reason, cycle_status, unhandled,
                   events, sinceChipReset, window>>
    /\ UNCHANGED <<gauge, streak, manual>>

\* write_status, lines 317-319: json.dump writes the record; main returns.
PublishDump ==
    /\ apc = "write_dump"
    /\ statusFile' = cycle_status
    /\ ProcessEnds
    /\ UNCHANGED <<monitorVars, stateFile, sinceChipReset, window>>
    /\ UNCHANGED <<gauge, streak, manual>>

\* The charger is plugged in or unplugged: the charge-detect input changes.
ChargerChange ==
    /\ window' = IF window = "charging" THEN "recent" ELSE "charging"
    /\ UNCHANGED <<statusFile, monitorVars, stateFile, apc, mode, last_reset,
                   bad_reading_count, last_voltage, current_time, reading, reason,
                   cycle_status, unhandled, events, sinceChipReset>>
    /\ UNCHANGED <<gauge, streak, manual>>

AcqInit ==
    /\ statusFile = Missing
    /\ MonitorStart
    /\ AcquisitionIdle
    /\ stateFile \in SpecStateFiles
    /\ sinceChipReset = AgeCap
    /\ window = "closed"
    /\ gauge = "typical"
    /\ streak = <<>>
    /\ manual = ManualIdle

AcqNext ==
    \/ AcqWait
    \/ AcqStart
    \/ OpenBus
    \/ LoadState
    \/ Read
    \/ Validate
    \/ ResetCheck
    \/ ResetWrite
    \/ ResetWait
    \/ ResetUpdate
    \/ Settle
    \/ Reread
    \/ Finish
    \/ PublishOpen
    \/ PublishDump
    \/ ChargerChange

AcqSpec == AcqInit /\ [][AcqNext]_vars

\* --------------------------------------------- the validator's scenarios

\* No cycle has run yet: there is no state file and no status file.
ValidatorInit ==
    /\ statusFile = Missing
    /\ MonitorStart
    /\ AcquisitionIdle
    /\ stateFile = StateAbsent
    /\ sinceChipReset = AgeCap
    /\ window = "closed"
    /\ gauge = "scenarios"
    /\ streak = <<>>
    /\ manual = ManualIdle

ValidatorSpec == ValidatorInit /\ [][AcqNext]_vars

\* ------------------------------------------------- the decoding of a word

\* One cycle started right after the reset command was run by hand (the state
\* file holds that reset, the cooldown is active), at 3.7 V and any word in the
\* SOC register.
DecodeInit ==
    /\ statusFile = Missing
    /\ MonitorStart
    /\ apc = "open_bus"
    /\ mode = "cycle"
    /\ last_reset = AgeCap
    /\ bad_reading_count = 0
    /\ last_voltage = 0
    /\ current_time = 0
    /\ reading = NoReading
    /\ reason = ""
    /\ cycle_status = NoStatus
    /\ unhandled = ""
    /\ events = <<>>
    /\ stateFile = save_state(0, 0, 0)
    /\ sinceChipReset = 0
    /\ window = "closed"
    /\ gauge = "any_soc"
    /\ streak = <<>>
    /\ manual = ManualIdle

DecodeNext ==
    \/ OpenBus
    \/ LoadState
    \/ Read
    \/ Validate
    \/ ResetCheck
    \/ Finish
    \/ PublishOpen
    \/ PublishDump

DecodeSpec == DecodeInit /\ [][DecodeNext]_vars

\* ------------------------------------------ the checks of is_bad_reading

\* One cycle with the cooldown active, on a reading of CheckRegisters and a
\* state file holding a voltage of CheckLastVoltages.
ChecksInit ==
    /\ statusFile = Missing
    /\ MonitorStart
    /\ apc = "open_bus"
    /\ mode = "cycle"
    /\ last_reset = AgeCap
    /\ bad_reading_count = 0
    /\ last_voltage = 0
    /\ current_time = 0
    /\ reading = NoReading
    /\ reason = ""
    /\ cycle_status = NoStatus
    /\ unhandled = ""
    /\ events = <<>>
    /\ stateFile \in {save_state(0, 0, lv) : lv \in CheckLastVoltages}
    /\ sinceChipReset = 0
    /\ window = "closed"
    /\ gauge = "checks"
    /\ streak = <<>>
    /\ manual = ManualIdle

ChecksNext == DecodeNext

ChecksSpec == ChecksInit /\ [][ChecksNext]_vars

\* ------------------------------------------------- the verdict on a grid

GridOffsets == (0 - GridSpread) .. GridSpread
GridVoltages ==
    {0, 1, 4100} \cup {VOLTAGE_CRITICAL + d : d \in GridOffsets}
                 \cup {VOLTAGE_WARNING + d : d \in GridOffsets}
GridPercents ==
    {0, 20, 500, 1000} \cup {PERCENTAGE_CRITICAL + d : d \in GridOffsets}
                       \cup {PERCENTAGE_WARNING + d : d \in GridOffsets}

\* The monitor about to poll a record of the grid.
VerdictInit ==
    /\ statusFile \in {StatusRecord(v, p) : v \in GridVoltages, p \in GridPercents}
    /\ pc = "check"
    /\ running = TRUE
    /\ shutdown_initiated = FALSE
    /\ warning_shown = FALSE
    /\ sinceWarning = AgeCap
    /\ sinceNotified = AgeCap
    /\ polled = None
    /\ condition = "OK"
    /\ battery = None
    /\ remaining = 0
    /\ ticks = 0
    /\ shutdownCalls = 0
    /\ fellThrough = FALSE
    /\ reminders = <<>>
    /\ notifyOutcome = "none"
    /\ NoAcquisition

VerdictNext == Check

VerdictSpec == VerdictInit /\ [][VerdictNext]_vars

\* ------------------------------------------------ a gauge that stays wrong

\* Seconds between two runs of the timer.
RetryGaps == {150, 298}

\* The timer runs battery-oneshot.py (without argument) after a gap.
TimerFires ==
    /\ apc \in {"idle", "crashed"}
    /\ \E d \in RetryGaps : AcqElapse(d)
    /\ mode' = "cycle"
    /\ apc' = "open_bus"
    /\ unhandled' = ""
    /\ UNCHANGED <<monitorVars, bad_reading_count, last_voltage, current_time,
                   reading, reason, cycle_status, events>>
    /\ UNCHANGED gauge

\* No cycle has run yet, or the last cycle has just reset the chip.
RetryInit ==
    /\ statusFile = Missing
    /\ MonitorStart
    /\ AcquisitionIdle
    /\ \/ stateFile = StateAbsent /\ sinceChipReset = AgeCap
       \/ stateFile = save_state(0, 0, 0) /\ sinceChipReset = 0
    /\ window = "closed"
    /\ gauge = "stuck"
    /\ streak = <<>>
    /\ manual = ManualIdle

RetryNext ==
    \/ TimerFires
    \/ OpenBus
    \/ LoadState
    \/ Read
    \/ Validate
    \/ ResetCheck
    \/ ResetWrite
    \/ ResetWait
    \/ ResetUpdate
    \/ Settle
    \/ Reread
    \/ Finish
    \/ PublishOpen
    \/ PublishDump

\* The timer keeps firing and a process that runs is scheduled.
RetrySpec == RetryInit /\ [][RetryNext]_vars /\ WF_vars(RetryNext)

\* ------------------------------------- a manual reset during a cycle

\* manual_reset, line 327: BatteryMonitor() loads the state file.  An exception
\* is caught by manual_reset (except Exception), which returns False.
ManualLoad ==
    /\ manual.pc = "idle"
    /\ LET loaded == load_state(stateFile)
       IN  manual' = IF loaded.exception # "" THEN ManualIdle
                     ELSE [pc |-> "check", last_reset |-> loaded.last_reset,
                           last_voltage |-> loaded.last_voltage, current_time |-> 0]
    /\ UNCHANGED <<statusFile, monitorVars, stateFile, apc, mode, last_reset,
                   bad_reading_count, last_voltage, current_time, reading, reason,
                   cycle_status, unhandled, events, sinceChipReset, window, gauge,
                   streak>>

\* reset_max_chip, lines 184-188, in the second process.
ManualCheck ==
    /\ manual.pc = "check"
    /\ manual' = IF manual.last_reset < RESET_COOLDOWN THEN ManualIdle
                  ELSE [manual EXCEPT !.pc = "write", !.current_time = 0]
    /\ UNCHANGED <<statusFile, monitorVars, stateFile, apc, mode, last_reset,
                   bad_reading_count, last_voltage, current_time, reading, reason,
                   cycle_status, unhandled, events, sinceChipReset, window, gauge,
                   streak>>

\* reset_max_chip, line 193, in the second process.
ManualWrite ==
    /\ manual.pc = "write"
    /\ \E fault \in BOOLEAN :
          IF fault
          THEN /\ manual' = ManualIdle
               /\ UNCHANGED <<sinceChipReset, streak>>
          ELSE /\ manual' = [manual EXCEPT !.pc = "wait"]
               /\ sinceChipReset' = 0
               /\ streak' = StreakReset(streak)
    /\ UNCHANGED <<statusFile, monitorVars, stateFile, apc, mode, last_reset,
                   bad_reading_count, last_voltage, current_time, reading, reason,
                   cycle_status, unhandled, events, window, gauge>>

\* reset_max_chip, line 196, in the second process: time.sleep(0.5).
ManualWait ==
    /\ manual.pc = "wait"
    /\ \E d \in {0, 1} :
          /\ FilesElapse(d)
          /\ manual' = [ManualAged(manual, d) EXCEPT !.pc = "update"]
          /\ current_time' = IF apc \in {"reset_write", "reset_wait", "reset_update"}
                              THEN current_time + d ELSE current_time
    /\ UNCHANGED <<monitorVars, apc, mode, bad_reading_count, last_voltage, reading,
                   reason, cycle_status, unhandled, events, gauge>>

\* reset_max_chip, lines 199-203, in the second process; it then exits.
ManualUpdate ==
    /\ manual.pc = "update"
    /\ stateFile' = save_state(manual.current_time, 0, manual.last_voltage)
    /\ manual' = ManualIdle
    /\ UNCHANGED <<statusFile, monitorVars, apc, mode, last_reset, bad_reading_count,
                   last_voltage, current_time, reading, reason, cycle_status, unhandled,
                   events, sinceChipReset, window, gauge, streak>>

\* No process runs yet; the state file is absent or holds a reset older than
\* the cooldown.
RaceInit ==
    /\ statusFile = Missing
    /\ MonitorStart
    /\ AcquisitionIdle
    /\ stateFile \in {StateAbsent, save_state(AgeCap, 0, 0)}
    /\ sinceChipReset = AgeCap
    /\ window = "closed"
    /\ gauge = "stuck"
    /\ streak = <<>>
    /\ manual = ManualIdle

RaceNext ==
    \/ AcqStart
    \/ OpenBus
    \/ LoadState
    \/ Read
    \/ Validate
    \/ ResetCheck
    \/ ResetWrite
    \/ ResetWait
    \/ ResetUpdate
    \/ Settle
    \/ Reread
    \/ Finish
    \/ PublishOpen
    \/ PublishDump
    \/ ManualLoad
    \/ ManualCheck
    \/ ManualWrite
    \/ ManualWait
    \/ ManualUpdate

RaceSpec == RaceInit /\ [][RaceNext]_vars

\* ------------------------------------------- records with absent fields

\* A file that parses as JSON and whose battery object has the voltage v and
\* the percent_user p, each of them present (<<x>>) or absent (<<>>), and no
\* other field: {} and {"battery": {}} are PartialRecord(<<>>, <<>>).
PartialRecord(v, p) ==
    [kind |-> "json", voltage |-> v, percent_user |-> p, percent_raw |-> <<>>,
     error |-> <<>>, timestamp |-> <<>>]

AbsentFieldRecords ==
    {PartialRecord(v, p) : v \in {<<>>, <<3700>>}, p \in {<<>>, <<30>>, <<500>>}}

\* The monitor is started on such a file, which no cycle rewrites.
AbsentInit ==
    /\ statusFile \in AbsentFieldRecords
    /\ MonitorStart
    /\ NoAcquisition

AbsentNext ==
    \/ MonitorStep
    \/ signal_handler

AbsentSpec == AbsentInit /\ [][AbsentNext]_vars

\* ------------------------------------------------------------------ claims

\* The record the poll read is readable and carries no error.
PolledClean == polled.ok /\ ~Truthy(polled.error)

PolledCriticalVoltage == polled.voltage > 0 /\ polled.voltage <= VOLTAGE_CRITICAL
PolledCriticalPercent == polled.percent_user <= PERCENTAGE_CRITICAL
PolledWarningVoltage == polled.voltage > 0 /\ polled.voltage <= VOLTAGE_WARNING
PolledWarningPercent == polled.percent_user <= PERCENTAGE_WARNING

\* The file holds no record, or a record that carries an error.
FileUnreadableOrError == statusFile.kind # "json" \/ Truthy(statusFile.error)

\* The file holds a readable, error-free record that meets a critical threshold.
FileCritical ==
    /\ statusFile.kind = "json"
    /\ ~Truthy(statusFile.error)
    /\ \/ Get(statusFile.voltage, 0) > 0 /\ Get(statusFile.voltage, 0) <= VOLTAGE_CRITICAL
       \/ Get(statusFile.percent_user, 0) <= PERCENTAGE_CRITICAL

\* Positions from which the monitor polls again.
PollingPcs == {"start", "while", "sleep", "check", "branch", "warn_read", "warn",
               "warn_notify"}

\* C1: the latch shutdown_initiated is set only by the branch on a poll whose
\* verdict is CRITICAL_* and whose record was readable, error-free and at a
\* critical threshold; a poll with verdict OK or WARNING_* leaves the latch
\* alone and does not go to the countdown; the countdown is entered and the
\* shutdown command called only with the latch set and a CRITICAL_* verdict.
LatchSetOnlyByCriticalPoll ==
    (shutdown_initiated' /\ ~shutdown_initiated)
        => /\ pc = "branch"
           /\ condition \in Critical
           /\ PolledClean
           /\ (PolledCriticalVoltage \/ PolledCriticalPercent)

OtherVerdictsStartNothing ==
    (pc = "branch" /\ condition \notin Critical)
        => /\ shutdown_initiated' = shutdown_initiated
           /\ pc' \notin CountdownPcs \cup {"crit_read"}
           /\ shutdownCalls' = shutdownCalls

C1_ShutdownOnlyAfterCriticalPoll ==
    /\ [][LatchSetOnlyByCriticalPoll]_vars
    /\ [][OtherVerdictsStartNothing]_vars
    /\ []((shutdownCalls > 0 \/ pc \in CountdownPcs \cup {"crit_read"})
            => (shutdown_initiated /\ condition \in Critical))

C1_Witness ==
    /\ pc = "done"
    /\ shutdownCalls = 1
    /\ condition = "CRITICAL_PERCENTAGE"

\* C2: a poll of a missing file, of a file that is not valid JSON or of a record
\* carrying battery.error returns OK; the branch on it starts no countdown and
\* goes back to the loop head (or the process exits on a signal).
UnreadablePollReturnsOK ==
    (pc = "check" /\ pc' = "branch" /\ FileUnreadableOrError) => condition' = "OK"

UnreadablePollKeepsPolling ==
    (pc = "branch" /\ ~PolledClean /\ pc' # pc)
        => /\ pc' \in {"while", "exited"}
           /\ (pc' = "exited" => ~running')
           /\ shutdown_initiated' = shutdown_initiated
           /\ shutdownCalls' = shutdownCalls

LoopHeadGoesToSleep ==
    (pc = "while" /\ running /\ pc' # pc) => pc' \in {"sleep", "exited"}

C2_UnreadableOrErrorIsOK ==
    /\ [][UnreadablePollReturnsOK]_vars
    /\ [][UnreadablePollKeepsPolling]_vars
    /\ [][LoopHeadGoesToSleep]_vars

C2_Witness ==
    /\ pc = "branch"
    /\ polled.ok
    /\ Truthy(polled.error)
    /\ polled.voltage = 0
    /\ polled.percent_user = 0
    /\ condition = "OK"
    /\ ~shutdown_initiated

\* C3: on a readable, error-free record, 0 < voltage <= VOLTAGE_CRITICAL gives
\* CRITICAL_VOLTAGE whatever the percentage; otherwise percent_user <=
\* PERCENTAGE_CRITICAL gives CRITICAL_PERCENTAGE whatever the voltage; a record
\* meeting a critical and a warning threshold gets a critical verdict.
C3_CriticalLayers ==
    (pc = "branch" /\ PolledClean) =>
        /\ PolledCriticalVoltage => condition = "CRITICAL_VOLTAGE"
        /\ (~PolledCriticalVoltage /\ PolledCriticalPercent)
              => condition = "CRITICAL_PERCENTAGE"
        /\ ((PolledCriticalVoltage \/ PolledCriticalPercent)
              /\ (PolledWarningVoltage \/ PolledWarningPercent))
              => condition \in Critical

C3_Witness ==
    /\ pc = "branch"
    /\ polled.voltage = VOLTAGE_WARNING
    /\ polled.percent_user = PERCENTAGE_CRITICAL
    /\ condition = "CRITICAL_PERCENTAGE"

\* The verdicts in their fixed order, each with the threshold test it stands for.
LayerOrder ==
    << <<"CRITICAL_VOLTAGE", PolledCriticalVoltage>>,
       <<"CRITICAL_PERCENTAGE", PolledCriticalPercent>>,
       <<"WARNING_VOLTAGE", PolledWarningVoltage>>,
       <<"WARNING_PERCENTAGE", PolledWarningPercent>>,
       <<"OK", TRUE>> >>

\* C4: the verdict is the first of CRITICAL_VOLTAGE, CRITICAL_PERCENTAGE,
\* WARNING_VOLTAGE, WARNING_PERCENTAGE, OK whose test holds, for every record
\* of the grid; 4.1 V with 2 % gives WARNING_PERCENTAGE.
C4_FirstMatchingLayer ==
    (pc = "branch" /\ PolledClean) =>
        /\ \E i \in 1 .. Len(LayerOrder) :
              /\ LayerOrder[i][2]
              /\ \A j \in 1 .. (i - 1) : ~LayerOrder[j][2]
              /\ condition = LayerOrder[i][1]
        /\ (polled.voltage = 4100 /\ polled.percent_user = 20)
              => condition = "WARNING_PERCENTAGE"

C4_Witness ==
    /\ pc = "branch"
    /\ polled.voltage = 4100
    /\ polled.percent_user = 20
    /\ condition = "WARNING_PERCENTAGE"

\* C5 as stated: whenever the shutdown command has been called, exactly
\* SHUTDOWN_DELAY one-second ticks of the countdown have elapsed.
C5_ExactlyDelayTicks == shutdownCalls > 0 => ticks = SHUTDOWN_DELAY

\* C5 as amended: the shutdown command is called after exactly SHUTDOWN_DELAY
\* ticks unless a sleep of the countdown raised and the except clause called it
\* at once, and never after more; whatever happens to the status file, the
\* countdown is not left for the polling loop, and remaining only counts down.
CountdownOnlyCountsDown ==
    pc \in CountdownPcs
        => /\ pc' \in CountdownPcs \cup {"done", "exited"}
           /\ ticks' \in {ticks, ticks + 1}
           /\ remaining' \in {remaining, remaining - 1} \/ pc = "countdown_initial"

C5_CountdownRunsToShutdown ==
    /\ []((shutdownCalls > 0 /\ ~fellThrough) => ticks = SHUTDOWN_DELAY)
    /\ [](shutdownCalls > 0 => ticks <= SHUTDOWN_DELAY)
    /\ [][CountdownOnlyCountsDown]_vars

C5_Witness ==
    /\ pc = "done"
    /\ shutdownCalls = 1
    /\ ~fellThrough
    /\ ticks = SHUTDOWN_DELAY
    /\ statusFile.kind = "missing"

\* C6: shutdown_initiated is never reset; the countdown is entered only by a
\* step that sets it from false; once the countdown has been entered the
\* monitor is never again at a position from which it polls, and once run has
\* ended it stays ended.
LatchNeverReset == shutdown_initiated => shutdown_initiated'

CountdownEnteredBySettingLatch ==
    (pc' = "crit_read" /\ pc # "crit_read") => (~shutdown_initiated /\ shutdown_initiated')

NoPollAfterCountdown ==
    (pc \in CountdownPcs \cup {"crit_read", "done", "exited"}) => pc' \notin PollingPcs

C6_SingleShot ==
    /\ [][LatchNeverReset]_vars
    /\ [][CountdownEnteredBySettingLatch]_vars
    /\ [][NoPollAfterCountdown]_vars
    /\ [](shutdownCalls > 0 => pc \in {"except", "done", "exited"})

C6_Witness ==
    /\ pc = "done"
    /\ shutdown_initiated
    /\ shutdownCalls = 1
    /\ FileCritical

\* C7: the countdown is left, other than by the process exiting on a signal,
\* only with the shutdown command called; in particular when a step failed and
\* the except clause was entered.
CountdownLeftWithShutdown ==
    (pc \in CountdownPcs /\ pc' \notin CountdownPcs /\ pc' # "exited")
        => shutdownCalls' >= 1

C7_FailureFallsThroughToShutdown ==
    /\ [][CountdownLeftWithShutdown]_vars
    /\ []((fellThrough /\ pc = "done") => shutdownCalls >= 1)

C7_Witness ==
    /\ pc = "done"
    /\ fellThrough
    /\ ticks < SHUTDOWN_DELAY
    /\ shutdownCalls = 1

\* C8 as stated: the shutdown command is called at most once per countdown.
C8_ShutdownAtMostOnce == shutdownCalls <= 1

\* C9: if from some point on the file always holds a readable, error-free
\* critical record and no signal arrives, the monitor, scheduled fairly, enters
\* the countdown and calls the shutdown command.
C9_CriticalLeadsToShutdown ==
    (<>[]FileCritical /\ []running)
        => (<>(pc \in CountdownPcs) /\ <>(shutdownCalls > 0))

C9_Witness ==
    /\ pc = "done"
    /\ running
    /\ shutdownCalls > 0
    /\ ticks = SHUTDOWN_DELAY
    /\ FileCritical

\* C10 as stated: a poll of a record whose timestamp is older than the allowed
\* age returns OK.
C10_StaleIsOK ==
    (pc = "branch" /\ polled.ok /\ polled.timestamp = "stale") => condition = "OK"

\* C11: the reset command is written to the chip only when at least
\* RESET_COOLDOWN seconds have passed since it was last written, whatever the
\* readings, from one process to the next (the time of the reset is read back
\* from the state file) and for the reset command run between cycles.
ResetWritesApart ==
    (apc = "reset_write" /\ apc' = "reset_wait") => sinceChipReset >= RESET_COOLDOWN

NoResetInWindow ==
    (apc = "reset_write" /\ apc' = "reset_wait") => window = "closed"

C12_NoResetInChargingWindow == [][NoResetInWindow]_vars

\* The cycle read the registers and is_bad_reading judged the reading good.
GoodCycle ==
    /\ apc \in {"finish", "write_open", "write_dump"}
    /\ events # <<>>
    /\ events[1] = "read"
    /\ reason = ""

\* The status of a good reading: the reading as create_status formats it, with
\* validation.reading_ok and nothing else.
GoodStatus == [StatusOf(reading) EXCEPT !.validation = <<[reading_ok |-> TRUE]>>]

GoodCyclePublishes ==
    (apc = "write_dump" /\ apc' = "idle" /\ GoodCycle) => statusFile' = GoodStatus

Refused == Len(events) >= 2 /\ events[2] = "cooldown"

\* The status of a refused reset: the reading as create_status formats it, with
\* reset_info reporting the failed attempt.
RefusedStatus ==
    [StatusOf(reading) EXCEPT
        !.reset_info = <<ResetFailed(reason, "Reset cooldown active")>>]

CooldownRefuses ==
    (apc = "reset_check" /\ mode = "cycle" /\ last_reset < RESET_COOLDOWN /\ apc' # apc)
        => /\ Refused'
           /\ apc' = "finish"
           /\ sinceChipReset' = sinceChipReset
           /\ last_reset' = last_reset
           /\ stateFile' = stateFile
           /\ reading' = reading

RefusedKeepsLastReset ==
    Refused
        => /\ sinceChipReset' = sinceChipReset
           /\ stateFile'.last_reset = stateFile.last_reset
           /\ apc' # "idle" => (last_reset' = last_reset /\ reading' = reading)
           /\ (apc = "write_dump" /\ apc' = "idle") => statusFile' = RefusedStatus

\* C14: when a bad reading reaches the threshold within RESET_COOLDOWN seconds
\* of last_reset, the cycle writes no command to the chip and leaves last_reset
\* as it is, in memory and in the state file; the record it publishes holds the
\* voltage and percentages of that reading and a reset_info with
\* reset_attempted, reset_failed and the message "Reset cooldown active".
C14_CooldownRefusal ==
    /\ [][CooldownRefuses]_vars
    /\ [][RefusedKeepsLastReset]_vars
    /\ [](Refused =>
            /\ last_reset < RESET_COOLDOWN
            /\ cycle_status = RefusedStatus
            /\ cycle_status.reset_info[1].reset_failed
            /\ ~cycle_status.reset_info[1].reset_performed
            /\ cycle_status.reset_info[1].error = <<"Reset cooldown active">>
            /\ cycle_status.error = <<>>
            /\ \A i \in 1 .. Len(events) : events[i] # "reset_write")

\* A cycle refused the reset 299 s after the last one and is about to write
\* its record.
C14_Witness ==
    /\ Refused
    /\ apc = "write_dump"
    /\ last_reset = RESET_COOLDOWN - 1
    /\ stateFile.last_reset = <<RESET_COOLDOWN - 1>>
    /\ sinceChipReset = RESET_COOLDOWN - 1
    /\ cycle_status.voltage = <<5120>>

\* The reset write of this cycle failed with an I/O error.
WriteFailed == Len(events) >= 2 /\ events[2] = "write_fault"

\* The status of a failed reset write.
WriteFailedStatus ==
    [StatusOf(reading) EXCEPT !.reset_info = <<ResetFailed(reason, "Reset failed")>>]

FailedWriteChangesNothing ==
    (apc = "reset_write" /\ apc' \notin {"reset_write", "reset_wait"})
        => /\ sinceChipReset' = sinceChipReset
           /\ stateFile' = stateFile
           /\ mode = "cycle" => /\ WriteFailed'
                                /\ last_reset' = last_reset
                                /\ bad_reading_count' = bad_reading_count

\* last_reset is set to a later time than it held, in memory or in the state
\* file, only by load_state at start-up and by the step of reset_max_chip that
\* follows a reset write that succeeded.
LastResetSetOnlyAfterWrite ==
    (last_reset' < last_reset
        \/ Get(stateFile'.last_reset, AgeCap) < Get(stateFile.last_reset, AgeCap))
      => \/ apc = "load_state" /\ stateFile' = stateFile
         \/ /\ apc = "reset_update"
            /\ events[Len(events) - 1] = "reset_write"
            /\ sinceChipReset = current_time

\* C15: a reset write that fails with an I/O error leaves last_reset as it was,
\* in memory and in the state file, so the cooldown is not started, and leaves
\* bad_reading_count at its incremented value; last_reset is set only after a
\* reset write that succeeded.
C15_FailedWriteKeepsState ==
    /\ [][FailedWriteChangesNothing]_vars
    /\ [][LastResetSetOnlyAfterWrite]_vars
    /\ [](WriteFailed =>
            /\ last_reset >= RESET_COOLDOWN
            /\ Get(stateFile.last_reset, AgeCap) >= RESET_COOLDOWN
            /\ bad_reading_count >= 1
            /\ cycle_status = WriteFailedStatus
            /\ apc \in {"write_open", "write_dump"}
                  => stateFile.bad_reading_count = <<bad_reading_count>>)

\* After a cycle whose reset write failed and which saved bad_reading_count 1,
\* the next cycle's write failed too: the cooldown did not keep it from trying.
C15_Witness ==
    /\ WriteFailed
    /\ apc = "write_dump"
    /\ bad_reading_count = 2
    /\ stateFile.bad_reading_count = <<2>>
    /\ last_reset = AgeCap
    /\ sinceChipReset = AgeCap

\* What a cycle does when its reset write succeeds, in order.
ResetOrder == <<"read", "reset_write", "wait", "update", "settle", "reread", "save">>

\* The reset write of this cycle succeeded.
ResetWritten == mode = "cycle" /\ Len(events) >= 2 /\ events[2] = "reset_write"

\* s is the beginning of t.
IsPrefix(s, t) == Len(s) <= Len(t) /\ \A i \in 1 .. Len(s) : s[i] = t[i]

\* The status after a reset: the reading held as create_status formats it, with
\* reset_info.reset_performed and the reason of the bad reading.
PerformedStatus ==
    [StatusOf(reading) EXCEPT
        !.reset_info = <<ResetPerformed(reason, "MAX chip reset successful")>>]

RereadIsPublished ==
    /\ (apc = "reread" /\ apc' = "finish")
          => /\ \E regs \in GaugeWords(gauge) : reading' = read_raw_data(regs[1], regs[2])
             /\ cycle_status' = PerformedStatus'
    /\ (ResetWritten /\ apc = "write_dump" /\ apc' = "idle" /\ cycle_status.error = <<>>)
          => statusFile' = PerformedStatus

ReasonIsTheVerdict ==
    /\ (apc = "validate" /\ apc' = "reset_check")
          => reason' = is_bad_reading(reading.voltage, reading.raw_percent,
                                      reading.user_percent, last_voltage)[2]
    /\ ResetWritten => (reason' = reason \/ apc' = "idle")

ReadFailed ==
    events # <<>> /\ events[Len(events)] \in {"read_fault", "reread_fault"}

\* C17 as stated: no bus fault of a cycle (opening the bus, the first read, the
\* reset write, the re-read) ends the process with an unhandled exception and
\* nothing published; after a failed read the status to publish carries
\* battery.error, after a failed reset write it carries reset_info.error.
C17_BusFaultsEndInErrorRecord ==
    /\ unhandled # "OSError"
    /\ ReadFailed => (apc \in {"write_open", "write_dump"} /\ Truthy(cycle_status.error))
    /\ WriteFailed => cycle_status.reset_info[1].error # <<>>

\* C18 as stated: every read of the status file by the monitor (the poll and
\* the second read of run) finds a complete record, the previous or the new
\* one, never the empty or partly written file that write_status leaves
\* between its open and the end of json.dump.
ReadFindsCompleteRecord ==
    (pc \in {"check", "crit_read", "warn_read"} /\ pc' \notin {pc, "exited"})
        => statusFile.kind # "garbage"

C18_ReadsAreAtomic == [][ReadFindsCompleteRecord]_vars

\* C19 as stated: whatever STATE_FILE holds, no exception leaves load_state,
\* and the attributes whose values the file does not give are 0 (last_reset 0
\* is the epoch) when the cycle goes on to read the registers.
C19_LoadStateDefaults ==
    /\ unhandled \notin {"PermissionError", "AttributeError"}
    /\ apc = "read" =>
          /\ stateFile.last_reset = <<>> => last_reset = AgeCap
          /\ stateFile.bad_reading_count = <<>> => bad_reading_count = 0
          /\ stateFile.last_voltage = <<>> => last_voltage = 0

\* A warning notification is emitted only when WARNING_INTERVAL seconds have
\* passed since the last one.
WarningsApart ==
    (pc = "warn_notify" /\ sinceNotified' = 0) => sinceNotified >= WARNING_INTERVAL

\* A warning verdict met when no notification was emitted in the last
\* WARNING_INTERVAL seconds, the first of the process among them, is notified.
DueWarningNotified ==
    (pc = "warn" /\ pc' \notin {"warn", "exited"} /\ sinceNotified >= WARNING_INTERVAL)
        => pc' = "warn_notify"

\* C20: two warning notifications of the monitor, of whichever kinds and
\* whatever was polled between them, are at least WARNING_INTERVAL seconds
\* apart, and the first warning verdict of a process is notified.
C20_WarningsRateLimited ==
    /\ [][WarningsApart]_vars
    /\ [][DueWarningNotified]_vars
    /\ [](pc = "warn_notify" => condition \in Warning)

\* The monitor is about to notify a percentage warning 300 s after its last
\* notification.
C20_Witness ==
    /\ pc = "warn_notify"
    /\ sinceNotified = WARNING_INTERVAL
    /\ condition = "WARNING_PERCENTAGE"
    /\ ~warning_shown

\* The values of remaining the claim names.
ReminderTicks == {15, 10, 5, 4, 3, 2, 1}

\* The tick whose remaining is r has run to the end of its sleep.
TickDone(r) == ticks >= SHUTDOWN_DELAY - r + 1

\* C21: in the countdown a reminder is emitted in the ticks whose remaining
\* seconds are 15, 10, 5, 4, 3, 2 and 1, once in each and in that order, and in
\* no other tick: every tick that has run emitted one if and only if its
\* remaining is one of these.
C21_ReminderTicks ==
    /\ \A i \in 1 .. Len(reminders) : reminders[i] \in ReminderTicks
    /\ \A i, j \in 1 .. Len(reminders) : i < j => reminders[i] > reminders[j]
    /\ \A r \in 1 .. SHUTDOWN_DELAY :
          TickDone(r) => ((\E i \in 1 .. Len(reminders) : reminders[i] = r)
                              <=> r \in ReminderTicks)

\* The countdown has run its fifteen ticks and emitted the seven reminders.
C21_Witness ==
    /\ pc = "final_alert"
    /\ ticks = SHUTDOWN_DELAY
    /\ reminders = <<15, 10, 5, 4, 3, 2, 1>>

\* A step in which the monitor made a notification call (wall, dialog).
NotificationStep ==
    pc \in BareExceptPcs /\ pc' # pc /\ notifyOutcome' \in NotifyOutcomes

\* Whatever the outcome of the call, the monitor goes on at the statement after
\* the try with the countdown, the latch and the verdict as they were.
OutcomeNeverSteers ==
    NotificationStep =>
        /\ pc' = AfterTry(pc)
        /\ ticks' = ticks
        /\ remaining' = IF pc = "countdown_initial" THEN SHUTDOWN_DELAY ELSE remaining
        /\ shutdown_initiated' = shutdown_initiated
        /\ shutdownCalls' = shutdownCalls
        /\ fellThrough' = fellThrough
        /\ condition' = condition

\* C22: the outcome of a notification call (it returns, fails or times out) has
\* no influence on the verdicts, the ticks of the countdown or the shutdown:
\* every notification step continues in the same way for each outcome, the
\* verdict is a function of the record polled alone, and a countdown in which
\* no sleep raised ends after SHUTDOWN_DELAY ticks with the shutdown command.
C22_NotificationOutcomeIrrelevant ==
    /\ [][OutcomeNeverSteers]_vars
    /\ [](pc = "branch" => condition = check_shutdown_conditions(polled))
    /\ []((pc = "done" /\ shutdown_initiated /\ ~fellThrough)
              => (ticks = SHUTDOWN_DELAY /\ shutdownCalls = 1))

\* The final alert timed out after a countdown of fifteen ticks, and the
\* monitor is at the pause before the shutdown command.
C22_Witness ==
    /\ pc = "final_sleep"
    /\ notifyOutcome = "timeout"
    /\ ticks = SHUTDOWN_DELAY
    /\ ~fellThrough

\* C23 as stated: when the one-second sleep of a tick starts, the monitor has
\* not waited for the reminder call of the tick.
C23_SleepNeverWaitsForReminder ==
    pc = "tick_sleep" => WallSeconds(notifyOutcome, 1) = 0

\* The reading 3.15 V at raw 57.5 %: its user percent is 50 % less the
\* shortfall of the code's factor, and is published as 50.0 %.
LowVoltageAtFifty == read_raw_data(32925, 32825)

\* No reset was made before this cycle.
NoPriorReset == last_reset = AgeCap \/ ResetWritten

\* C24 as stated: a cycle that has read 3.15 V with a user percent of 50 %,
\* with no stored voltage and no prior reset, has flagged it ("Voltage too low
\* for percentage") and reset the chip, and its status has reset_info with
\* reset_performed true.
C24_LowVoltageAtFiftyResets ==
    (/\ mode = "cycle"
     /\ apc = "finish"
     /\ reading = LowVoltageAtFifty
     /\ last_voltage = 0
     /\ NoPriorReset)
        => /\ reason = "Voltage too low for percentage"
           /\ cycle_status.reset_info # <<>>
           /\ cycle_status.reset_info[1].reset_performed

\* Register counts of 3.25 V, 3.19 V and 2.60 V.
Volts325 == read_raw_data(32930, 49).voltage
Volts319 == read_raw_data(32927, 49).voltage
Volts260 == read_raw_data(130, 49).voltage

\* The cycle has validated its reading against the voltage the previous cycle
\* stored, and has not read again since.
Validated ==
    /\ mode = "cycle"
    /\ apc \in {"finish", "reset_check", "reset_write", "reset_wait", "reset_update",
                "settle", "reread"}
    /\ last_voltage = Get(stateFile.last_voltage, 0)
    /\ \A i \in 1 .. Len(events) : events[i] # "reread"

Flagged == reason # ""

\* C25: a reading more than 0.5 V from the voltage stored by the previous cycle
\* (when that is above 0) is flagged bad; 3.19 V after a stored 3.25 V is not
\* flagged, and 2.60 V after a stored 3.19 V is flagged with the reason
\* "Sudden voltage change".
C25_SuddenVoltageChangeFlagged ==
    Validated =>
        /\ (last_voltage > 0 /\ Abs(reading.voltage - last_voltage) * 10 > 5 * VoltUnit)
              => Flagged
        /\ (reading.voltage = Volts319 /\ last_voltage = Volts325) => ~Flagged
        /\ (reading.voltage = Volts260 /\ last_voltage = Volts319)
              => reason = "Sudden voltage change"

\* 2.60 V was read in the cycle after one that stored 3.19 V, it was flagged
\* for the jump and the cycle is about to reset the chip.
C25_Witness ==
    /\ Validated
    /\ apc = "reset_check"
    /\ reading.voltage = Volts260
    /\ last_voltage = Volts319
    /\ stateFile.last_voltage = <<Volts319>>
    /\ reason = "Sudden voltage change"

\* percent_user of a status record lies between 0 and 100 % (in tenths).
PercentUserInRange(f) ==
    f.kind = "json" => (Get(f.percent_user, 0) >= 0 /\ Get(f.percent_user, 0) <= 1000)

\* C26: whatever word the SOC register holds, the decoded user percent is
\* between 0 and 100 %, and so is percent_user of the status the cycle builds
\* and of the record it publishes.
C26_UserPercentInRange ==
    /\ reading.user_percent >= 0
    /\ reading.user_percent <= 100 * UserUnit
    /\ PercentUserInRange(cycle_status)
    /\ PercentUserInRange(statusFile)

\* The SOC register held 0xFFFF (raw 255.996 %): the record published holds
\* 100.0 %.
C26_Witness ==
    /\ apc = "idle"
    /\ statusFile.kind = "json"
    /\ statusFile.error = <<>>
    /\ statusFile.percent_raw = <<2560>>
    /\ statusFile.percent_user = <<1000>>

\* write_status has written the status of a reading and the cycle ends.
PublishStep ==
    /\ mode = "cycle"
    /\ apc = "write_dump"
    /\ apc' = "idle"
    /\ cycle_status.error = <<>>

\* check_shutdown_conditions on a reading as read_raw_data returned it.
VerdictOfReading(r) ==
    IF r.voltage * 1000 <= VOLTAGE_CRITICAL * VoltUnit /\ r.voltage > 0
    THEN "CRITICAL_VOLTAGE"
    ELSE IF r.user_percent * 10 <= PERCENTAGE_CRITICAL * UserUnit
    THEN "CRITICAL_PERCENTAGE"
    ELSE IF r.voltage * 1000 <= VOLTAGE_WARNING * VoltUnit /\ r.voltage > 0
    THEN "WARNING_VOLTAGE"
    ELSE IF r.user_percent * 10 <= PERCENTAGE_WARNING * UserUnit
    THEN "WARNING_PERCENTAGE"
    ELSE "OK"

\* The record read back has the values of the reading itself.
ReadBackEqualsReading ==
    PublishStep =>
        LET b == get_battery_data(statusFile')
        IN  /\ b.ok
            /\ b.voltage * VoltUnit = reading.voltage * 1000
            /\ b.percent_user * UserUnit = reading.user_percent * 10
            /\ b.percent_raw * RawUnit = reading.raw_percent * 10
            /\ b.timestamp = "fresh"
            /\ check_shutdown_conditions(b) = VerdictOfReading(reading)

ReadBackEqualsRounded ==
    PublishStep =>
        LET b == get_battery_data(statusFile')
            rounded == [ok |-> TRUE,
                        voltage |-> Round(reading.voltage * 1000, VoltUnit),
                        percent_user |-> Round(reading.user_percent * 10, UserUnit),
                        percent_raw |-> Round(reading.raw_percent * 10, RawUnit),
                        timestamp |-> "fresh",
                        error |-> <<>>]
        IN  /\ b = rounded
            /\ check_shutdown_conditions(b) = check_shutdown_conditions(rounded)

Accepted ==
    /\ mode = "cycle"
    /\ apc = "finish"
    /\ cycle_status.validation = <<[reading_ok |-> TRUE]>>

\* The status file holds the record of an accepted reading.
AcceptedRecord(f) ==
    /\ f.kind = "json"
    /\ f.error = <<>>
    /\ f.validation = <<[reading_ok |-> TRUE]>>

\* C28 as stated, in what it requires of any curve: the expected percent at a
\* voltage is one value, so of two readings at 3.6 V, one at a user percent of
\* 0 % and one at 100 %, at least one deviates from it by 50 points or more and
\* is flagged bad; two cycles in a row do not accept the one and the other.
C28_DeviationFromCurveFlagged ==
    ~(/\ Accepted
      /\ cycle_status.voltage = <<3600>>
      /\ cycle_status.percent_user = <<1000>>
      /\ AcceptedRecord(statusFile)
      /\ statusFile.voltage = <<3600>>
      /\ statusFile.percent_user = <<0>>)

\* A bus fault hit the recovery of this cycle: the reset write or the re-read
\* after the reset failed.
RecoveryFault ==
    /\ mode = "cycle"
    /\ \E i \in 1 .. Len(events) : events[i] \in {"write_fault", "reread_fault"}

\* The status carries an error annotation.
Annotated(f) ==
    \/ Truthy(f.error)
    \/ /\ "reset_info" \in DOMAIN f
       /\ f.reset_info # <<>>
       /\ f.reset_info[1].error # <<>>

\* The status holds the voltage and the percentages of the reading taken
\* before the recovery.
HoldsReading(f) ==
    /\ f.voltage = StatusOf(reading).voltage
    /\ f.percent_user = StatusOf(reading).percent_user
    /\ f.percent_raw = StatusOf(reading).percent_raw

\* C30 as stated: a cycle whose reset write or whose re-read after the reset
\* failed publishes the voltage and the percentages it read before the
\* recovery, with an error annotation.
C30_RecoveryFaultPublishesReading ==
    (apc = "write_dump" /\ RecoveryFault)
        => (HoldsReading(cycle_status) /\ Annotated(cycle_status))

\* ------------------------------------------------------------------------
\* C29: the resets of a run of consecutive bad readings.

\* The reset command reaches the chip from a cycle whose reading belongs to the
\* run followed: the time since the run's first reading is then the time from
\* its first to its last reading.
ResetInStreak == apc = "reset_write" /\ apc' = "reset_wait" /\ mode = "cycle" /\ streak # <<>>

\* ceil(d / RESET_COOLDOWN).
CooldownsCeil(d) == (d + RESET_COOLDOWN - 1) \div RESET_COOLDOWN

ResetsWithinCeil == ResetInStreak => streak'[2] <= CooldownsCeil(streak[1])

FlaggedCycleEnds == apc = "finish" /\ apc' = "write_open" /\ reason # ""

LastVoltageKept ==
    FlaggedCycleEnds =>
        /\ last_voltage' = last_voltage
        /\ stateFile'.last_voltage = <<last_voltage>>

\* C31: a cycle whose reading is flagged bad, or whose re-read after a reset
\* was never validated, does not change last_voltage, in memory or in the
\* state file.
C31_LastVoltageOnlyFromGoodReadings == [][LastVoltageKept]_vars

\* ------------------------------------------------------------------------
\* C32: a record lacking fields.

\* The file parses as JSON and lacks battery.voltage or battery.percent_user.
FieldsAbsent == statusFile.kind = "json" /\ (statusFile.voltage = <<>> \/ statusFile.percent_user = <<>>)

PollOfAbsentFieldsReturnsOK ==
    (pc = "check" /\ pc' = "branch" /\ FieldsAbsent) => condition' = "OK"

\* C32: the poll of a JSON file that lacks the battery object, its voltage or
\* its percent_user returns OK, and the monitor polling such a file starts no
\* countdown.
C32_AbsentFieldsAreUnknown ==
    /\ [][PollOfAbsentFieldsReturnsOK]_vars
    /\ [](FieldsAbsent => (~shutdown_initiated /\ shutdownCalls = 0))

\* ------------------------------------------------------------------------
\* C33: recovery is retried.

\* A reading flagged bad reaches the threshold: reset_max_chip is called.
BadReadingCallsReset ==
    (apc = "validate" /\ apc' # apc /\ reason' # "") => apc' = "reset_check"

\* With the cooldown over, the reset command is written.
CooldownOverWrites ==
    (apc = "reset_check" /\ mode = "cycle" /\ last_reset >= RESET_COOLDOWN /\ apc' # apc)
        => apc' = "reset_write"

\* A cycle refused by the cooldown persists a count one above the one it loaded.
RefusedCycleGrowsCount ==
    (apc = "finish" /\ Refused /\ apc' = "write_open")
        => /\ bad_reading_count = Get(stateFile.bad_reading_count, 0) + 1
           /\ stateFile'.bad_reading_count = <<bad_reading_count>>

\* The reset zeroes the count, in memory and in the state file.
ResetZeroesCount ==
    (apc = "reset_update" /\ mode = "cycle" /\ apc' = "settle")
        => /\ bad_reading_count' = 0
           /\ stateFile'.bad_reading_count = <<0>>

\* A bus fault in a cycle, or a process that died.
CycleFaulted ==
    \/ apc = "crashed"
    \/ \E i \in 1 .. Len(events) : events[i] \in {"read_fault", "write_fault"}

InitialReadFailed == mode = "cycle" /\ events = <<"read_fault">>

\* The record create_error_status builds: zeros and a non-empty error.
ErrorRecord(f) ==
    /\ f.kind = "json"
    /\ f.voltage = <<0>>
    /\ f.percent_user = <<0>>
    /\ f.percent_raw = <<0>>
    /\ Truthy(f.error)

\* Loading the state and reading the registers write nothing to the state file.
LoadAndReadKeepStateFile ==
    (apc \in {"load_state", "read"} /\ mode = "cycle") => stateFile' = stateFile

FailedReadBuildsErrorRecord ==
    (apc = "read" /\ apc' = "write_open") => ErrorRecord(cycle_status')

FailedReadCycleKeepsStateFile == InitialReadFailed => stateFile' = stateFile

FailedReadCyclePublishesError ==
    (InitialReadFailed /\ apc = "write_dump" /\ apc' = "idle") => ErrorRecord(statusFile')

SecondReadNotCritical == check_shutdown_conditions(battery) \notin Critical

SecondReadGoesToCountdown ==
    (pc = "crit_read" /\ pc' # pc)
        => /\ pc' \in {"countdown_user", "exited"}
           /\ shutdown_initiated'

VerdictKeptInCountdown ==
    (pc \in CountdownPcs \cup {"crit_read"}) => (condition' = condition /\ condition \in Critical)

\* C35: whatever the second read of the critical branch returns, while the
\* writer goes on writing the file, the monitor goes from it to the countdown
\* with the verdict of the first read, keeps that verdict, and the countdown
\* ends in the shutdown command (or in the exit of the process on a signal).
C35_SecondReadDoesNotSteer ==
    /\ [][SecondReadGoesToCountdown]_vars
    /\ [][VerdictKeptInCountdown]_vars
    /\ ((pc = "countdown_user" /\ SecondReadNotCritical)
            ~> (shutdownCalls > 0 \/ pc = "exited"))

\* The countdown starts on a CRITICAL_VOLTAGE verdict after a second read that
\* found the file being written and returned nothing.
C35_Witness ==
    /\ pc = "countdown_user"
    /\ ~battery.ok
    /\ condition = "CRITICAL_VOLTAGE"
    /\ statusFile.kind = "garbage"

\* ------------------------------------------------------------------------
\* C36: a signal during the countdown.

\* The signal handler runs while the countdown is active.
SignalInCountdown == pc \in CountdownPcs /\ running /\ ~running'

SignalInCountdownExits ==
    SignalInCountdown => (pc' = "exited" /\ fellThrough' = fellThrough)

NoShutdownAfterSignal == ~running => shutdownCalls' = shutdownCalls

\* C36: a signal handled while the countdown is active ends the process there,
\* without entering the countdown's except clause, and no shutdown command is
\* called once a signal has been handled.
C36_SignalEndsCountdown ==
    /\ [][SignalInCountdownExits]_vars
    /\ [][NoShutdownAfterSignal]_vars

\* ------------------------------------------------------------------------
\* C37: a manual reset concurrent with a cycle.

\* One of the two processes writes the reset command to the chip.
ChipWritten ==
    \/ apc = "reset_write" /\ apc' = "reset_wait"
    \/ manual.pc = "write" /\ manual'.pc = "wait"

\* The first process runs a cycle, or does not run.
ConcurrentWritesApart ==
    (ChipWritten /\ mode # "reset") => sinceChipReset >= RESET_COOLDOWN

\* C37: when the manual reset and a cycle both decide to reset, each having
\* loaded the state file before the other saved it, the reset command is
\* written to the chip at most once within RESET_COOLDOWN seconds.
C37_ConcurrentResetsOnce == [][ConcurrentWritesApart]_vars

\* ------------------------------------------------------------------------
\* C38: the publisher's flags and the monitor's verdict.

\* The file holds an error-free record with the condition flags of create_status.
FlaggedRecord(f) == f.kind = "json" /\ f.error = <<>> /\ "voltage_critical" \in DOMAIN f

\* What the monitor's poll returns on the file.
VerdictOnFile == check_shutdown_conditions(get_battery_data(statusFile))

\* C38: on every published error-free record, a critical flag is set if and
\* only if the monitor's verdict is CRITICAL_*, and a warning flag is set only
\* when the verdict is WARNING_* or CRITICAL_*.
C38_FlagsAgreeWithVerdict ==
    FlaggedRecord(statusFile)
        => /\ (statusFile.voltage_critical \/ statusFile.percentage_critical)
                  <=> (VerdictOnFile \in Critical)
           /\ (statusFile.voltage_warning \/ statusFile.percentage_warning)
                  => (VerdictOnFile \in Warning \cup Critical)

\* ------------------------------------------------------------------------
\* C39: the checks of is_bad_reading.

\* The checks in the order of the claim, on the reading held and the
\* last_voltage loaded, as the floats compare: the product of a register
\* count and 0.000078125 is above the literal 3.8 at the count of 3.8 V, and
\* equal to or on the stated side of the other literals.
ChecksOfReading ==
    LET v == reading.voltage
        r == reading.raw_percent
        u == reading.user_percent
    IN  << v * 10 > 43 * VoltUnit \/ v * 10 < 25 * VoltUnit,
           v > 4 * VoltUnit /\ u < 30 * UserUnit,
           v * 10 < 35 * VoltUnit /\ u > 70 * UserUnit,
           v * 10 >= 38 * VoltUnit /\ u < 10 * UserUnit,
           v * 10 < 33 * VoltUnit /\ u > 50 * UserUnit,
           last_voltage > 0 /\ Abs(v - last_voltage) * 10 > 5 * VoltUnit,
           r < 0 \/ r > 110 * RawUnit,
           u < (0 - 5) * UserUnit \/ u > 105 * UserUnit >>

ReasonsOfChecks ==
    << "Impossible voltage", "High voltage, low percentage",
       "Low voltage, high percentage", "Voltage too high for percentage",
       "Voltage too low for percentage", "Sudden voltage change",
       "Raw percentage out of bounds", "User percentage out of bounds" >>

ChecksHolding == {i \in 1 .. Len(ChecksOfReading) : ChecksOfReading[i]}

FirstHolding == CHOOSE i \in ChecksHolding : \A j \in ChecksHolding : i <= j

\* The step that calls is_bad_reading on the reading held.
VerdictStep == apc = "validate" /\ apc' # apc

FlaggedIffSomeCheckHolds ==
    VerdictStep =>
        IF ChecksHolding = {}
        THEN /\ reason' = ""
             /\ cycle_status'.validation = <<[reading_ok |-> TRUE]>>
        ELSE /\ reason' = ReasonsOfChecks[FirstHolding]
             /\ bad_reading_count' = bad_reading_count + 1

VerdictChangesNoState ==
    VerdictStep => /\ last_reset' = last_reset
                   /\ last_voltage' = last_voltage
                   /\ stateFile' = stateFile

\* C39: is_bad_reading flags the reading if and only if one of the eight
\* checks holds, gives the reason of the first check that holds in their
\* order, and changes neither last_reset, last_voltage nor the state file.
C39_BadIffSomeCheckFirstReason ==
    /\ [][FlaggedIffSomeCheckHolds]_vars
    /\ [][VerdictChangesNoState]_vars

\* A reading for which two checks hold (3.4 V at user 100 %, raw 120 %) has
\* been given the reason of the first.
C39_Witness ==
    /\ apc = "reset_check"
    /\ gauge = "checks"
    /\ Cardinality(ChecksHolding) = 2
    /\ reason = "Low voltage, high percentage"
    /\ reading.raw_percent > 110 * RawUnit

====
